---------------------------- MODULE Spec2Model ----------------------------
(***************************************************************************)
(* A model of one Bolt connection of nxcypher_bolt: the handshake, the     *)
(* read loop of BoltConnection.handle, the thirteen message handlers, the  *)
(* state machine, the session (result cursor and transaction copy) and     *)
(* the converter's node-id table.                                          *)
(*                                                                         *)
(* The graph is the set of its node keys.  The query engine (the external  *)
(* nxcypher package) is represented by a handful of queries whose effect   *)
(* on the working graph and whose columnar result are fixed by EngineRun.  *)
(***************************************************************************)
EXTENDS Integers, Sequences, FiniteSets

(***************************************************************************)
(* Bounds of the model.                                                    *)
(***************************************************************************)
MaxKey == 1
MaxRows == 5
MaxPull == 2
MaxQid == 1
MaxReq == 5
MaxMsgLen == 2
MaxMsgs == 2
MaxChunk == 2
MaxConns == 2
MaxSockets == 3
MaxPath == 3
MaxIter == 5

Keys == 0..MaxKey

(***************************************************************************)
(* state.py: ConnectionState and VALID_TRANSITIONS.                        *)
(***************************************************************************)
ConnectionState ==
    {"NEGOTIATION", "AUTHENTICATION", "READY", "STREAMING", "TX_READY",
     "TX_STREAMING", "FAILED", "DEFUNCT"}

VALID_TRANSITIONS ==
    [s \in ConnectionState |->
        CASE s = "NEGOTIATION"    -> {"AUTHENTICATION", "DEFUNCT"}
          [] s = "AUTHENTICATION" -> {"READY", "DEFUNCT"}
          [] s = "READY"          -> {"STREAMING", "TX_READY", "FAILED", "DEFUNCT"}
          [] s = "STREAMING"      -> {"READY", "STREAMING", "FAILED", "DEFUNCT"}
          [] s = "TX_READY"       -> {"TX_STREAMING", "READY", "FAILED", "DEFUNCT"}
          [] s = "TX_STREAMING"   -> {"TX_READY", "TX_STREAMING", "FAILED", "DEFUNCT"}
          [] s = "FAILED"         -> {"READY", "DEFUNCT"}
          [] OTHER                -> {}]

\* A check that lets every transition through.
can_transition_to_any(s, t) == TRUE

can_transition_to(s, t) == t \in VALID_TRANSITIONS[s]

\* A reset that goes to READY from every state.
sm_reset_from_any(s) == "READY"

\* A reset that leaves every state but FAILED alone, as its docstring reads.
sm_reset_failed_only(s) == IF s = "FAILED" THEN "READY" ELSE s

\* StateMachine.reset: READY from every state but DEFUNCT.
sm_reset(s) == IF s = "FAILED" THEN "READY"
               ELSE IF s # "DEFUNCT" THEN "READY" ELSE s

\* A transition_to that sets whatever state it is given.
transition_to_unchecked(s, t) == [state |-> t, raised |-> FALSE]

\* StateMachine.transition_to: raised is the ValueError.
transition_to(s, t) ==
    IF can_transition_to(s, t) THEN [state |-> t, raised |-> FALSE]
    ELSE [state |-> s, raised |-> TRUE]

mark_defunct(s) == "DEFUNCT"

is_defunct(s) == s = "DEFUNCT"

is_in_transaction(s) == s \in {"TX_READY", "TX_STREAMING"}

is_streaming(s) == s \in {"STREAMING", "TX_STREAMING"}

\* StateMachine.__init__, with no call made yet.
NewStateMachine ==
    [state |-> "NEGOTIATION", op |-> "__init__", arg |-> "", from |-> "NEGOTIATION",
     raised |-> FALSE, result |-> FALSE]

(***************************************************************************)
(* chunking.py.  Bytes are the integers 0..255, a message is a sequence of *)
(* bytes.                                                                  *)
(***************************************************************************)
MAX_CHUNK_SIZE == 65535

\* A size prefix with the low byte first.
Pack16LittleEndian(n) == <<n % 256, (n \div 256) % 256>>

\* struct.pack('>H', n) and struct.unpack('>H', b).
Pack16(n) == <<(n \div 256) % 256, n % 256>>

Unpack16(b) == b[1] * 256 + b[2]

Lesser(a, b) == IF a < b THEN a ELSE b

\* The loop of ChunkWriter.write, from the bytes not yet framed on.
RECURSIVE write_chunks(_, _)
write_chunks(data, max_chunk_size) ==
    IF Len(data) = 0 THEN <<0, 0>>
    ELSE LET chunk_size == Lesser(Len(data), max_chunk_size)
         IN Pack16(chunk_size) \o SubSeq(data, 1, chunk_size)
              \o write_chunks(SubSeq(data, chunk_size + 1, Len(data)), max_chunk_size)

\* A writer that leaves out the end marker.
RECURSIVE write_chunks_unmarked(_, _)
write_chunks_unmarked(data, max_chunk_size) ==
    IF Len(data) = 0 THEN <<>>
    ELSE LET chunk_size == Lesser(Len(data), max_chunk_size)
         IN Pack16(chunk_size) \o SubSeq(data, 1, chunk_size)
              \o write_chunks_unmarked(SubSeq(data, chunk_size + 1, Len(data)),
                                       max_chunk_size)

write_unmarked(data, size) == write_chunks_unmarked(data, Lesser(size, MAX_CHUNK_SIZE))

\* ChunkWriter(size).write(data)
write(data, size) == write_chunks(data, Lesser(size, MAX_CHUNK_SIZE))

\* ChunkReader.__init__; expected_chunk_size = -1 is None.
NewChunkReader ==
    [buffer |-> <<>>, message_buffer |-> <<>>, expected_chunk_size |-> -1]

\* Lines 86-90: the chunk size is read once two bytes are buffered.
read_chunk_size(rd) ==
    IF rd.expected_chunk_size = -1 /\ Len(rd.buffer) >= 2
    THEN [rd EXCEPT !.expected_chunk_size = Unpack16(SubSeq(rd.buffer, 1, 2)),
                    !.buffer = SubSeq(rd.buffer, 3, Len(rd.buffer))]
    ELSE rd

\* An end of message that returns the message and keeps it in the accumulator.
end_of_message_kept(rd) ==
    [reader |-> [rd EXCEPT !.expected_chunk_size = -1],
     message |-> <<rd.message_buffer>>]

\* Lines 93-98: the zero-length chunk that ends a non-empty message.
end_of_message(rd) ==
    [reader |-> [rd EXCEPT !.expected_chunk_size = -1, !.message_buffer = <<>>],
     message |-> <<rd.message_buffer>>]

\* ChunkReader._try_read_message: message is <<>> for None, <<m>> for m.
RECURSIVE try_read_message(_)
try_read_message(rd0) ==
    LET rd == read_chunk_size(rd0)
    IN IF rd.expected_chunk_size = -1
       THEN [reader |-> rd, message |-> <<>>]
       ELSE IF rd.expected_chunk_size = 0
       THEN IF Len(rd.message_buffer) > 0
            THEN end_of_message(rd)
            ELSE try_read_message([rd EXCEPT !.expected_chunk_size = -1])
       ELSE IF Len(rd.buffer) < rd.expected_chunk_size
       THEN [reader |-> rd, message |-> <<>>]
       ELSE try_read_message(
                [rd EXCEPT
                    !.message_buffer = @ \o SubSeq(rd.buffer, 1, rd.expected_chunk_size),
                    !.buffer = SubSeq(rd.buffer, rd.expected_chunk_size + 1,
                                      Len(rd.buffer)),
                    !.expected_chunk_size = -1])

\* The loop of ChunkReader.feed.
RECURSIVE read_messages(_, _)
read_messages(rd, messages) ==
    LET r == try_read_message(rd)
    IN IF r.message = <<>> THEN [reader |-> r.reader, messages |-> messages]
       ELSE read_messages(r.reader, Append(messages, r.message[1]))

\* ChunkReader.feed
feed(rd, data) == read_messages([rd EXCEPT !.buffer = @ \o data], <<>>)

\* ChunkWriter.write as the loop it is.  pc is "idle" (no call), "loop" (at
\* the test of the while), "done" (returned) or "raised" (struct.error).
NoWriter ==
    [max_chunk_size |-> MAX_CHUNK_SIZE, data |-> <<>>, offset |-> 0,
     result |-> <<>>, iterations |-> 0, pc |-> "idle"]

\* ChunkWriter.__init__ and the entry of write(data).
NewChunkWriter(max_chunk_size, data) ==
    [NoWriter EXCEPT !.max_chunk_size = Lesser(max_chunk_size, MAX_CHUNK_SIZE),
                     !.data = data, !.pc = "loop"]

\* Lines 46-50: one iteration of the while loop; struct.pack('>H', n) raises
\* for n < 0.
write_iteration(w) ==
    LET chunk_size == Lesser(Len(w.data) - w.offset, w.max_chunk_size)
    IN IF chunk_size < 0
       THEN [w EXCEPT !.pc = "raised", !.iterations = @ + 1]
       ELSE [w EXCEPT
               !.result = @ \o Pack16(chunk_size)
                            \o SubSeq(w.data, w.offset + 1, w.offset + chunk_size),
               !.offset = @ + chunk_size,
               !.iterations = @ + 1]

\* Lines 52-54: the end marker and the return.
write_return(w) == [w EXCEPT !.result = @ \o <<0, 0>>, !.pc = "done"]

\* A clear that leaves the pending chunk size as it is.
clear_keeps_size(rd) == [rd EXCEPT !.buffer = <<>>, !.message_buffer = <<>>]

\* ChunkReader.clear
clear(rd) ==
    [rd EXCEPT !.buffer = <<>>, !.message_buffer = <<>>, !.expected_chunk_size = -1]

\* No writer, no stream.
NoChunks ==
    [size |-> MAX_CHUNK_SIZE, msgs |-> <<>>, written |-> <<>>, stream |-> <<>>,
     reader |-> NewChunkReader, got |-> <<>>]

(***************************************************************************)
(* connection.py: the read loop of handle() over a byte stream.  Every     *)
(* non-empty message of the stream stands for the bytes of one request     *)
(* Structure; requests counts them, dispatched the calls of                *)
(* _dispatch_message, messages the length of the list the last read        *)
(* returned.                                                               *)
(***************************************************************************)
NoReads ==
    [stream |-> <<>>, reader |-> NewChunkReader, requests |-> 0,
     dispatched |-> 0, messages |-> 0, open |-> TRUE, op |-> ""]

\* Lines 106-107: "if not messages: break", and handle() closes the socket.
no_messages(messages) == Len(messages) = 0

\* Lines 215-219, 105-110: the bytes of one read are fed to the chunk reader
\* and every message it completes is dispatched, or the loop breaks.
read_and_dispatch(rl, data) ==
    LET r == feed(rl.reader, data)
    IN [rl EXCEPT !.reader = r.reader,
                  !.messages = Len(r.messages),
                  !.dispatched = @ + Len(r.messages),
                  !.open = ~no_messages(r.messages),
                  !.op = "read"]

(***************************************************************************)
(* messages.py: the responses.  A response is a record of one shape; the   *)
(* fields a message does not carry stay at their defaults.  keys is the    *)
(* key set of the metadata map.                                            *)
(***************************************************************************)
BaseMsg ==
    [tag |-> "", keys |-> {}, code |-> "", has_more |-> FALSE,
     fields |-> <<>>, qid |-> -1, row |-> <<>>, bytes |-> <<>>]

create_success(keys) == [BaseMsg EXCEPT !.tag = "SUCCESS", !.keys = keys]

create_failure(code) ==
    [BaseMsg EXCEPT !.tag = "FAILURE", !.keys = {"code", "message"}, !.code = code]

create_record(row) == [BaseMsg EXCEPT !.tag = "RECORD", !.row = row]

create_ignored == [BaseMsg EXCEPT !.tag = "IGNORED"]

RequestInvalid == "Neo.ClientError.Request.Invalid"
SyntaxError == "Neo.ClientError.Statement.SyntaxError"

(***************************************************************************)
(* The requests.  q is the query of a RUN, n the n of a PULL or DISCARD,   *)
(* wellformed is FALSE for a message whose fields are not of the shape the *)
(* handler reads (a HELLO or PULL whose extra is no map, a RUN whose query *)
(* cannot be sliced, a PULL whose n is no number).                         *)
(***************************************************************************)
NoQuery == [op |-> "none", arg |-> 0]

\* The queries of a client that reads and writes the graph, and those of a
\* client that streams one long result.
GraphQueries ==
    {[op |-> "match_all", arg |-> 0], [op |-> "bad", arg |-> 0]}
    \cup [op : {"match_one", "create", "delete"}, arg : Keys]

StreamQueries ==
    {[op |-> "unwind", arg |-> MaxRows], [op |-> "bad", arg |-> 0]}

PullSizes == -1..MaxPull

Request(tag, q, n, wf) == [tag |-> tag, q |-> q, n |-> n, wellformed |-> wf]

Plain(tag) == Request(tag, NoQuery, -1, TRUE)


(***************************************************************************)
(* Optional values (Python's None): <<>> is None, <<v>> is v.              *)
(***************************************************************************)
None == <<>>
Some(v) == <<v>>
IsNone(o) == Len(o) = 0
Get(o) == o[1]

(***************************************************************************)
(* Values of a result column.  A node map of the engine carries its key in *)
(* elem (__node_id__); the converted Node carries its integer id in val    *)
(* and str(node_key) in elem.  An integer carries itself in val.           *)
(***************************************************************************)
NodeMap(k) == [kind |-> "node", val |-> -1, elem |-> k]
IntValue(i) == [kind |-> "int", val |-> i, elem |-> -1]

RECURSIVE SortedKeys(_)
SortedKeys(S) ==
    IF S = {} THEN <<>>
    ELSE LET k == CHOOSE x \in S : \A y \in S : x <= y
         IN <<k>> \o SortedKeys(S \ {k})

(***************************************************************************)
(* The engine, connection.py line 340: run(query, params) against the      *)
(* working graph.  ok = FALSE is a raised exception; graph is the working  *)
(* graph after the query; empty is TRUE when the result dict is empty.     *)
(***************************************************************************)
EngineRun(q, g) ==
    CASE q.op = "match_all" ->
            [ok |-> TRUE, graph |-> g, empty |-> FALSE, fields |-> <<"n">>,
             col |-> [i \in 1..Cardinality(g) |-> NodeMap(SortedKeys(g)[i])]]
      [] q.op = "match_one" ->
            [ok |-> TRUE, graph |-> g, empty |-> FALSE, fields |-> <<"n">>,
             col |-> IF q.arg \in g THEN <<NodeMap(q.arg)>> ELSE <<>>]
      [] q.op = "create" ->
            [ok |-> TRUE, graph |-> g \cup {q.arg}, empty |-> TRUE,
             fields |-> <<>>, col |-> <<>>]
      [] q.op = "delete" ->
            [ok |-> TRUE, graph |-> g \ {q.arg}, empty |-> TRUE,
             fields |-> <<>>, col |-> <<>>]
      [] q.op = "unwind" ->
            [ok |-> TRUE, graph |-> g, empty |-> FALSE, fields |-> <<"x">>,
             col |-> [i \in 1..q.arg |-> IntValue(i)]]
      [] OTHER ->
            [ok |-> FALSE, graph |-> g, empty |-> TRUE, fields |-> <<>>,
             col |-> <<>>]

(***************************************************************************)
(* converter.py: ResultConverter.  node_id_map[k] = -1 when k is not in    *)
(* the table.                                                              *)
(***************************************************************************)
NewConverter == [node_id_map |-> [k \in Keys |-> -1], next_node_id |-> 0]

get_node_id(cv, k) ==
    IF cv.node_id_map[k] = -1
    THEN [id |-> cv.next_node_id,
          conv |-> [node_id_map |-> [cv.node_id_map EXCEPT ![k] = cv.next_node_id],
                    next_node_id |-> cv.next_node_id + 1]]
    ELSE [id |-> cv.node_id_map[k], conv |-> cv]

convert_value(cv, v) ==
    IF v.kind = "node"
    THEN LET r == get_node_id(cv, v.elem)
         IN [value |-> [kind |-> "node", val |-> r.id, elem |-> v.elem],
             conv |-> r.conv]
    ELSE [value |-> v, conv |-> cv]

\* The rows of one column, converted in row order; each row is <<value>>.
RECURSIVE ConvertRows(_, _, _)
ConvertRows(col, cv, acc) ==
    IF col = <<>> THEN [records |-> acc, conv |-> cv]
    ELSE LET r == convert_value(cv, Head(col))
         IN ConvertRows(Tail(col), r.conv, Append(acc, <<r.value>>))

convert_result(cv, res) ==
    IF res.empty
    THEN [result |-> [fields |-> <<>>, records |-> <<>>, cursor |-> 0], conv |-> cv]
    ELSE LET c == ConvertRows(res.col, cv, <<>>)
         IN [result |-> [fields |-> res.fields, records |-> c.records, cursor |-> 0],
             conv |-> c.conv]

(***************************************************************************)
(* converter.py: relationships and paths.  A node key is an integer, and   *)
(* 0 is the key that is false in Python.  An element of a path is a record *)
(* of one shape: kind "node" with key, or kind "rel" with start and end.   *)
(***************************************************************************)
NodeElement(k) == [kind |-> "node", key |-> k, start |-> -1, end |-> -1]

RelElement(s, e) == [kind |-> "rel", key |-> -1, start |-> s, end |-> e]

\* bool(node_key): the test of "if start_node" and "if end_node".
Truthy(k) == k # 0

\* What a conversion returns: a Node (id), a Relationship (start_node_id,
\* end_node_id) or a Path (nodes by id, relationships by their edge tuple,
\* indices).  The ids of edges are not followed.
NoStructure ==
    [id |-> -1, start_node_id |-> -1, end_node_id |-> -1,
     nodes |-> <<>>, relationships |-> <<>>, indices |-> <<>>]

\* _convert_relationship
convert_relationship(cv, rel) ==
    LET s == IF Truthy(rel.start) THEN get_node_id(cv, rel.start)
             ELSE [id |-> 0, conv |-> cv]
        t == IF Truthy(rel.end) THEN get_node_id(s.conv, rel.end)
             ELSE [id |-> 0, conv |-> s.conv]
    IN [value |-> [NoStructure EXCEPT !.start_node_id = s.id,
                                      !.end_node_id = t.id],
        conv |-> t.conv]

\* A direction test that looks at __start_node__.
forward_from_start(next_node_key, rel) == next_node_key = rel.start

\* Line 220: next_node_key == end_node
forward(next_node_key, rel) == next_node_key = rel.end

\* The loop of _convert_path from element i (counted from 0) on; acc holds
\* nodes, relationships, indices, node_index_map, rel_index and the table.
RECURSIVE convert_path_from(_, _, _)
convert_path_from(path_data, i, acc) ==
    IF i >= Len(path_data) THEN acc
    ELSE LET element == path_data[i + 1]
         IN IF i % 2 = 0
            THEN IF element.kind # "node"
                 THEN convert_path_from(path_data, i + 1, acc)
                 ELSE LET r == get_node_id(acc.conv, element.key)
                          seen == IF acc.node_index_map[element.key] # -1 THEN acc
                                  ELSE [acc EXCEPT
                                          !.node_index_map[element.key] = Len(acc.nodes),
                                          !.nodes = Append(@, r.id),
                                          !.conv = r.conv]
                      IN convert_path_from(path_data, i + 1,
                            [seen EXCEPT !.indices =
                                Append(@, seen.node_index_map[element.key])])
            ELSE LET edge_tuple == <<element.start, element.end>>
                     index ==
                         IF i + 1 < Len(path_data)
                         THEN IF path_data[i + 2].kind = "node"
                              THEN IF forward(path_data[i + 2].key, element)
                                   THEN acc.rel_index + 1
                                   ELSE -(acc.rel_index + 1)
                              ELSE acc.rel_index + 1
                         ELSE acc.rel_index + 1
                 IN convert_path_from(path_data, i + 1,
                       [acc EXCEPT !.indices = Append(@, index),
                                   !.relationships = Append(@, edge_tuple),
                                   !.rel_index = @ + 1])

\* _convert_path
convert_path(cv, path_data) ==
    LET acc == convert_path_from(path_data, 0,
                   [nodes |-> <<>>, relationships |-> <<>>, indices |-> <<>>,
                    node_index_map |-> [k \in Keys |-> -1], rel_index |-> 0,
                    conv |-> cv])
    IN [value |-> [NoStructure EXCEPT !.nodes = acc.nodes,
                                      !.relationships = acc.relationships,
                                      !.indices = acc.indices],
        conv |-> acc.conv]

\* ResultConverter.__init__, and nothing converted.
NewResultConverter ==
    [conv |-> NewConverter, op |-> "", input |-> <<>>, output |-> NoStructure]

(***************************************************************************)
(* session.py: QueryResult.                                                *)
(***************************************************************************)
Min(a, b) == IF a < b THEN a ELSE b

\* A pull whose bounded branch returns the rows and forgets to move the cursor.
pull_cursor_kept(qr, n) ==
    LET end == IF n < 0 THEN Len(qr.records)
               ELSE Min(qr.cursor + n, Len(qr.records))
    IN [rows |-> SubSeq(qr.records, qr.cursor + 1, end),
        result |-> [qr EXCEPT !.cursor = IF n < 0 THEN end ELSE qr.cursor]]

pull(qr, n) ==
    LET end == IF n < 0 THEN Len(qr.records)
               ELSE Min(qr.cursor + n, Len(qr.records))
    IN [rows |-> SubSeq(qr.records, qr.cursor + 1, end),
        result |-> [qr EXCEPT !.cursor = end]]

\* A discard that counts the rest for n < 0 and forgets to move the cursor.
discard_rest_kept(qr, n) ==
    [qr EXCEPT !.cursor = IF n < 0 THEN qr.cursor
                          ELSE Min(qr.cursor + n, Len(qr.records))]

discard(qr, n) ==
    [qr EXCEPT !.cursor = IF n < 0 THEN Len(qr.records)
                          ELSE Min(qr.cursor + n, Len(qr.records))]

\* A has_more that still answers yes with the cursor at the end.
has_more_inclusive(qr) == qr.cursor <= Len(qr.records)

has_more(qr) == qr.cursor < Len(qr.records)

\* No QueryResult, no call.
NoPull ==
    [result |-> [fields |-> <<>>, records |-> <<>>, cursor |-> 0],
     op |-> "", n |-> 0, rows |-> <<>>, taken |-> <<>>, has_more |-> FALSE]

(***************************************************************************)
(* session.py: BoltSession as an object of its own.  A session is a record *)
(* of graph, in_transaction, tx_graph, current_result and last_qid; a      *)
(* method gives the session after the call and tells whether it raised     *)
(* RuntimeError.                                                           *)
(***************************************************************************)
NewBoltSession ==
    [graph |-> {}, in_transaction |-> FALSE, tx_graph |-> None,
     current_result |-> None, last_qid |-> -1, op |-> "", raised |-> FALSE]

\* A begin_transaction that does not look at in_transaction.
begin_unguarded(s) ==
    [s EXCEPT !.tx_graph = Some(s.graph), !.in_transaction = TRUE,
              !.op = "begin_transaction", !.raised = FALSE]

\* BoltSession.begin_transaction
begin(s) ==
    IF s.in_transaction
    THEN [s EXCEPT !.op = "begin_transaction", !.raised = TRUE]
    ELSE [s EXCEPT !.tx_graph = Some(s.graph), !.in_transaction = TRUE,
                   !.op = "begin_transaction", !.raised = FALSE]

\* BoltSession.commit_transaction
commit(s) ==
    IF ~s.in_transaction
    THEN [s EXCEPT !.op = "commit_transaction", !.raised = TRUE]
    ELSE [s EXCEPT !.graph = IF IsNone(s.tx_graph) THEN @ ELSE Get(s.tx_graph),
                   !.tx_graph = None, !.in_transaction = FALSE,
                   !.op = "commit_transaction", !.raised = FALSE]

\* A rollback that clears the flag and keeps the copy.
rollback_keeps_copy(s) ==
    IF ~s.in_transaction
    THEN [s EXCEPT !.op = "rollback_transaction", !.raised = TRUE]
    ELSE [s EXCEPT !.in_transaction = FALSE,
                   !.op = "rollback_transaction", !.raised = FALSE]

\* BoltSession.rollback_transaction
rollback(s) ==
    IF ~s.in_transaction
    THEN [s EXCEPT !.op = "rollback_transaction", !.raised = TRUE]
    ELSE [s EXCEPT !.tx_graph = None, !.in_transaction = FALSE,
                   !.op = "rollback_transaction", !.raised = FALSE]

\* get_working_graph, and a caller that adds the node k to it or takes it out.
working_graph_write(s, k, add) ==
    LET g == IF s.in_transaction /\ ~IsNone(s.tx_graph)
             THEN Get(s.tx_graph) ELSE s.graph
        w == IF add THEN g \cup {k} ELSE g \ {k}
    IN IF s.in_transaction /\ ~IsNone(s.tx_graph)
       THEN [s EXCEPT !.tx_graph = Some(w), !.op = "get_working_graph",
                      !.raised = FALSE]
       ELSE [s EXCEPT !.graph = w, !.op = "get_working_graph", !.raised = FALSE]

(***************************************************************************)
(* Several connections on one event loop.  A handler is a coroutine: it    *)
(* runs from one await to the next without another coroutine running in    *)
(* between.  pc is where a handler stands: awaiting a read, awaiting the   *)
(* drain of a response, or inside commit_transaction between graph.clear() *)
(* and graph.update(tx_graph).                                             *)
(***************************************************************************)
Conns == 1..MaxConns

NewTask ==
    [pc |-> "await_read", in_transaction |-> FALSE, tx_graph |-> None,
     last |-> "", torn |-> FALSE]

NoLoop == [graph |-> {}, running |-> 0, conns |-> [c \in Conns |-> NewTask]]

\* A commit_transaction that awaits between the clear and the update.
SuspendsInCommit(pc) == pc \in {"await_read", "await_drain", "cleared"}

\* The places where a handler awaits: the read of _read_messages and the
\* drain of _send_message.  commit_transaction has none.
Suspends(pc) == pc \in {"await_read", "await_drain"}

(***************************************************************************)
(* server.py: BoltServer.  A task of _handle_connection stands in the      *)
(* handshake, in the read loop or in _close of connection.handle(), or has *)
(* ended: returned, raised or cancelled.                                   *)
(***************************************************************************)
Sockets == 1..MaxSockets

Handling == {"handshake", "reading", "closing"}

NewBoltServer ==
    [running |-> FALSE, connections |-> {}, tasks |-> [s \in Sockets |-> "none"]]

connection_count(srv) == Cardinality(srv.connections)

\* A discard after the try statement and not in a finally clause: it is
\* reached when handle() returns or raises an Exception.
discard_after_try(how) == how \in {"returned", "raised"}

\* Lines 172-175: the finally clause runs however the await of handle() ends.
discard_in_finally(how) == how \in {"returned", "raised", "cancelled"}

\* The task of socket s ends.
task_ends(srv, s, how) ==
    [srv EXCEPT !.tasks[s] = how,
                !.connections = IF discard_in_finally(how) THEN @ \ {s} ELSE @]

(***************************************************************************)
(* connection.py: SUPPORTED_VERSIONS and the version choice of _handshake. *)
(* A proposal is a decoded 4-byte slot; major = 0 is an unused slot.       *)
(***************************************************************************)
SUPPORTED_VERSIONS == << <<5, 4>>, <<5, 0>>, <<4, 4>>, <<4, 3>> >>

NoVersion == <<0, 0>>

Proposal(major, minor, range) == [major |-> major, minor |-> minor, range |-> range]

Matches(p, sup) ==
    /\ p.major > 0
    /\ sup[1] = p.major
    /\ IF p.range > 0
       THEN p.minor - p.range <= sup[2] /\ sup[2] <= p.minor
       ELSE sup[2] = p.minor

\* The inner loop of lines 163-174: the first supported version, from the
\* j-th on, that the proposal p covers.
RECURSIVE ScanSupported(_, _)
ScanSupported(p, j) ==
    IF j > Len(SUPPORTED_VERSIONS) THEN NoVersion
    ELSE IF Matches(p, SUPPORTED_VERSIONS[j]) THEN SUPPORTED_VERSIONS[j]
    ELSE ScanSupported(p, j + 1)

\* The outer loop of lines 161-176, from the i-th proposal on; it stops at the
\* first proposal for which the inner loop selected a version.
RECURSIVE ScanProposals(_, _)
ScanProposals(proposals, i) ==
    IF i > Len(proposals) THEN NoVersion
    ELSE LET selected == ScanSupported(proposals[i], 1)
         IN IF selected # NoVersion THEN selected
            ELSE ScanProposals(proposals, i + 1)

\* A choice that scans the server's list first: the server's most preferred
\* version that any proposal covers.
SelectVersionServerFirst(proposals) ==
    LET js == {j \in 1..Len(SUPPORTED_VERSIONS) :
                  \E i \in 1..Len(proposals) :
                      Matches(proposals[i], SUPPORTED_VERSIONS[j])}
    IN IF js = {} THEN NoVersion
       ELSE SUPPORTED_VERSIONS[CHOOSE x \in js : \A y \in js : x <= y]

SelectVersion(proposals) == ScanProposals(proposals, 1)

\* struct.unpack('>I', ...) and struct.pack('>I', ...) on four bytes.
Unpack32(b) == ((b[1] * 256 + b[2]) * 256 + b[3]) * 256 + b[4]

Pack32(v) ==
    <<(v \div 16777216) % 256, (v \div 65536) % 256, (v \div 256) % 256, v % 256>>

\* Lines 152-155: the low byte is the major version, then minor, then range;
\* the high byte is not read.
DecodeProposal(slot) ==
    LET v == Unpack32(slot)
    IN Proposal(v % 256, (v \div 256) % 256, (v \div 65536) % 256)

\* The slot a client writes for a proposal.
EncodeProposal(p) == Pack32((p.range * 256 + p.minor) * 256 + p.major)

BOLT_MAGIC == <<96, 96, 176, 23>>

\* A preamble that is not the magic one.
WrongMagic == <<96, 96, 176, 24>>

\* The proposals a client of this model sends in each of its four slots.
ProposalSet ==
    {Proposal(0, 0, 0), Proposal(5, 4, 0), Proposal(4, 4, 1), Proposal(3, 0, 0)}

(***************************************************************************)
(* packstream.py.  A value is a record of one shape; t tells its type and  *)
(* the fields the type does not use stay at their defaults:                *)
(*   null                                                                  *)
(*   bool    b                                                             *)
(*   int     neg and mag, sign and magnitude as Python keeps an int: the   *)
(*           magnitude in base 256, most significant digit first, without  *)
(*           leading zeros (zero is the empty magnitude)                   *)
(*   str     s, the code points                                            *)
(*   bytes   s                                                             *)
(*   list    items                                                         *)
(*   map     items, the pairs [key, value] in insertion order              *)
(*   struct  tag and items, a Structure                                    *)
(*   error   a raised ValueError                                           *)
(* Floats are left out, and so is the coercion of map keys that are not    *)
(* strings.                                                                *)
(***************************************************************************)
TINY_STRING == 128
TINY_LIST == 144
TINY_MAP == 160
TINY_STRUCT == 176
NULL == 192
FLOAT_64 == 193
MARKER_FALSE == 194
MARKER_TRUE == 195
INT_8 == 200
INT_16 == 201
INT_32 == 202
INT_64 == 203
BYTES_8 == 204
BYTES_16 == 205
BYTES_32 == 206
STRING_8 == 208
STRING_16 == 209
STRING_32 == 210
LIST_8 == 212
LIST_16 == 213
LIST_32 == 214
MAP_8 == 216
MAP_16 == 217
MAP_32 == 218
STRUCT_8 == 220
STRUCT_16 == 221

PsValue(t) ==
    [t |-> t, b |-> FALSE, neg |-> FALSE, mag |-> <<>>, s |-> <<>>,
     items |-> <<>>, tag |-> 0]

PsNull == PsValue("null")
PsBool(b) == [PsValue("bool") EXCEPT !.b = b]
PsInt(neg, mag) == [PsValue("int") EXCEPT !.neg = neg, !.mag = mag]
PsStr(s) == [PsValue("str") EXCEPT !.s = s]
PsBytes(s) == [PsValue("bytes") EXCEPT !.s = s]
PsList(items) == [PsValue("list") EXCEPT !.items = items]
PsMap(pairs) == [PsValue("map") EXCEPT !.items = pairs]
Structure(tag, fields) == [PsValue("struct") EXCEPT !.tag = tag, !.items = fields]
PsError == PsValue("error")

Zeros(n) == [i \in 1..n |-> 0]

StripZeros(b) ==
    IF \A i \in 1..Len(b) : b[i] = 0 THEN <<>>
    ELSE LET k == CHOOSE i \in 1..Len(b) :
                      b[i] # 0 /\ \A j \in 1..(i - 1) : b[j] = 0
         IN SubSeq(b, k, Len(b))

\* The two's complement of the bytes b: every byte inverted, and one added.
Negated(b) ==
    [i \in 1..Len(b) |->
        (255 - b[i] + (IF \A j \in (i + 1)..Len(b) : b[j] = 0 THEN 1 ELSE 0)) % 256]

\* struct.pack('>b' | '>h' | '>i' | '>q', value): n bytes, two's complement.
pack_signed(v, n) ==
    LET padded == Zeros(n - Len(v.mag)) \o v.mag
    IN IF v.neg THEN Negated(padded) ELSE padded

\* struct.unpack of the same formats.
unpack_signed(b) ==
    IF b[1] < 128 THEN PsInt(FALSE, StripZeros(b))
    ELSE PsInt(TRUE, StripZeros(Negated(b)))

\* -2^(8n-1) <= value < 2^(8n-1), the range tests of lines 113-120.
InRange(v, n) ==
    \/ Len(v.mag) < n
    \/ /\ Len(v.mag) = n
       /\ \/ v.mag[1] < 128
          \/ v.neg /\ v.mag[1] = 128 /\ \A j \in 2..n : v.mag[j] = 0

\* A tiny range that takes -17 in.
InTinyFrom17(v) ==
    IF v.neg THEN Len(v.mag) = 1 /\ v.mag[1] <= 17
    ELSE Len(v.mag) = 0 \/ (Len(v.mag) = 1 /\ v.mag[1] < 128)

\* -16 <= value < 128, line 110.
InTiny(v) ==
    IF v.neg THEN Len(v.mag) = 1 /\ v.mag[1] <= 16
    ELSE Len(v.mag) = 0 \/ (Len(v.mag) = 1 /\ v.mag[1] < 128)

\* _encode_int; value & 0xFF is the low byte of the two's complement.
encode_int(v) ==
    IF InTiny(v) THEN pack_signed(v, 1)
    ELSE IF InRange(v, 1) THEN <<INT_8>> \o pack_signed(v, 1)
    ELSE IF InRange(v, 2) THEN <<INT_16>> \o pack_signed(v, 2)
    ELSE IF InRange(v, 4) THEN <<INT_32>> \o pack_signed(v, 4)
    ELSE <<INT_64>> \o pack_signed(v, 8)

\* str.encode('utf-8') and bytes.decode('utf-8'), for code points below
\* 65536.  A string is encoded and decoded by halves.
utf8_char(c) ==
    IF c < 128 THEN <<c>>
    ELSE IF c < 2048 THEN <<192 + (c \div 64), 128 + (c % 64)>>
    ELSE <<224 + (c \div 4096), 128 + ((c \div 64) % 64), 128 + (c % 64)>>

RECURSIVE utf8_encode(_)
utf8_encode(s) ==
    IF Len(s) = 0 THEN <<>>
    ELSE IF Len(s) = 1 THEN utf8_char(s[1])
    ELSE LET h == Len(s) \div 2
         IN utf8_encode(SubSeq(s, 1, h)) \o utf8_encode(SubSeq(s, h + 1, Len(s)))

\* The code point of the one character that the bytes b encode.
utf8_point(b) ==
    IF b[1] < 128 THEN b[1]
    ELSE IF b[1] < 224 THEN (b[1] - 192) * 64 + (b[2] - 128)
    ELSE (b[1] - 224) * 4096 + (b[2] - 128) * 64 + (b[3] - 128)

RECURSIVE utf8_decode(_)
utf8_decode(b) ==
    IF Len(b) = 0 THEN <<>>
    ELSE LET starts == {i \in 2..Len(b) : b[i] < 128 \/ b[i] >= 192}
             far(i) == IF 2 * i > Len(b) THEN 2 * i - Len(b) ELSE Len(b) - 2 * i
         IN IF starts = {} THEN <<utf8_point(b)>>
            ELSE LET m == CHOOSE i \in starts :
                              \A k \in starts : far(i) < far(k) \/ (far(i) = far(k) /\ i <= k)
                 IN utf8_decode(SubSeq(b, 1, m - 1)) \o utf8_decode(SubSeq(b, m, Len(b)))

\* _encode_string
encode_string(s) ==
    LET encoded == utf8_encode(s)
        size == Len(encoded)
    IN (IF size < 16 THEN <<TINY_STRING + size>>
        ELSE IF size < 256 THEN <<STRING_8, size>>
        ELSE IF size < 65536 THEN <<STRING_16>> \o Pack16(size)
        ELSE <<STRING_32>> \o Pack32(size))
         \o encoded

\* _encode_bytes
encode_bytes(s) ==
    LET size == Len(s)
    IN (IF size < 256 THEN <<BYTES_8, size>>
        ELSE IF size < 65536 THEN <<BYTES_16>> \o Pack16(size)
        ELSE <<BYTES_32>> \o Pack32(size))
         \o s

RECURSIVE encode_value(_)
RECURSIVE encode_items(_)
RECURSIVE encode_pairs(_)

\* _encode_list
encode_list(items) ==
    LET size == Len(items)
    IN (IF size < 16 THEN <<TINY_LIST + size>>
        ELSE IF size < 256 THEN <<LIST_8, size>>
        ELSE IF size < 65536 THEN <<LIST_16>> \o Pack16(size)
        ELSE <<LIST_32>> \o Pack32(size))
         \o encode_items(items)

\* _encode_map
encode_map(pairs) ==
    LET size == Len(pairs)
    IN (IF size < 16 THEN <<TINY_MAP + size>>
        ELSE IF size < 256 THEN <<MAP_8, size>>
        ELSE IF size < 65536 THEN <<MAP_16>> \o Pack16(size)
        ELSE <<MAP_32>> \o Pack32(size))
         \o encode_pairs(pairs)

\* _encode_structure
encode_structure(tag, fields) ==
    LET size == Len(fields)
    IN (IF size < 16 THEN <<TINY_STRUCT + size>>
        ELSE IF size < 256 THEN <<STRUCT_8, size>>
        ELSE <<STRUCT_16>> \o Pack16(size))
         \o <<tag>> \o encode_items(fields)

\* for item in value: self._encode_value(item)
encode_items(items) ==
    IF items = <<>> THEN <<>>
    ELSE encode_value(Head(items)) \o encode_items(Tail(items))

\* for k, v in value.items(): the key as a string, then the value
encode_pairs(pairs) ==
    IF pairs = <<>> THEN <<>>
    ELSE encode_string(Head(pairs).key.s) \o encode_value(Head(pairs).value)
            \o encode_pairs(Tail(pairs))

\* _encode_value
encode_value(v) ==
    CASE v.t = "null" -> <<NULL>>
      [] v.t = "bool" -> <<IF v.b THEN MARKER_TRUE ELSE MARKER_FALSE>>
      [] v.t = "int" -> encode_int(v)
      [] v.t = "str" -> encode_string(v.s)
      [] v.t = "bytes" -> encode_bytes(v.s)
      [] v.t = "list" -> encode_list(v.items)
      [] v.t = "map" -> encode_map(v.items)
      [] v.t = "struct" -> encode_structure(v.tag, v.items)

encode(value) == encode_value(value)

\* What the decoder hands back: ok = FALSE is a raised ValueError, pos the
\* index of the next byte to read (self._pos + 1).
Decoded(value, pos) == [ok |-> TRUE, value |-> value, pos |-> pos]

Undecoded == [ok |-> FALSE, value |-> PsError, pos |-> 0]

\* _read_bytes(n) at pos would run past the end of the data.
Short(data, pos, n) == pos + n - 1 > Len(data)

RECURSIVE decode_value(_, _)
RECURSIVE decode_items(_, _, _, _)
RECURSIVE decode_pairs(_, _, _, _)

\* [self._decode_value() for _ in range(size)]
decode_items(data, pos, size, acc) ==
    IF size = 0 THEN [ok |-> TRUE, items |-> acc, pos |-> pos]
    ELSE LET r == decode_value(data, pos)
         IN IF ~r.ok THEN [ok |-> FALSE, items |-> <<>>, pos |-> 0]
            ELSE decode_items(data, r.pos, size - 1, Append(acc, r.value))

\* {self._decode_value(): self._decode_value() for _ in range(size)}: the
\* key is decoded before the value.
decode_pairs(data, pos, size, acc) ==
    IF size = 0 THEN [ok |-> TRUE, items |-> acc, pos |-> pos]
    ELSE LET k == decode_value(data, pos)
         IN IF ~k.ok THEN [ok |-> FALSE, items |-> <<>>, pos |-> 0]
            ELSE LET v == decode_value(data, k.pos)
                 IN IF ~v.ok THEN [ok |-> FALSE, items |-> <<>>, pos |-> 0]
                    ELSE decode_pairs(data, v.pos, size - 1,
                                      Append(acc, [key |-> k.value, value |-> v.value]))

decode_string(data, pos, size) ==
    IF Short(data, pos, size) THEN Undecoded
    ELSE Decoded(PsStr(utf8_decode(SubSeq(data, pos, pos + size - 1))), pos + size)

decode_bytes(data, pos, size) ==
    IF Short(data, pos, size) THEN Undecoded
    ELSE Decoded(PsBytes(SubSeq(data, pos, pos + size - 1)), pos + size)

decode_list(data, pos, size) ==
    LET r == decode_items(data, pos, size, <<>>)
    IN IF r.ok THEN Decoded(PsList(r.items), r.pos) ELSE Undecoded

decode_map(data, pos, size) ==
    LET r == decode_pairs(data, pos, size, <<>>)
    IN IF r.ok THEN Decoded(PsMap(r.items), r.pos) ELSE Undecoded

\* tag = self._read_byte(), then the fields
decode_structure(data, pos, size) ==
    IF Short(data, pos, 1) THEN Undecoded
    ELSE LET r == decode_items(data, pos + 1, size, <<>>)
         IN IF r.ok THEN Decoded(Structure(data[pos], r.items), r.pos)
            ELSE Undecoded

decode_int(data, pos, n) ==
    IF Short(data, pos, n) THEN Undecoded
    ELSE Decoded(unpack_signed(SubSeq(data, pos, pos + n - 1)), pos + n)

\* A size of n bytes read at pos, then the body: kind tells which.
decode_sized(kind, data, pos, n) ==
    IF Short(data, pos, n) THEN Undecoded
    ELSE LET size == CASE n = 1 -> data[pos]
                       [] n = 2 -> Unpack16(SubSeq(data, pos, pos + 1))
                       [] n = 4 -> Unpack32(SubSeq(data, pos, pos + 3))
         IN CASE kind = "bytes" -> decode_bytes(data, pos + n, size)
              [] kind = "str" -> decode_string(data, pos + n, size)
              [] kind = "list" -> decode_list(data, pos + n, size)
              [] kind = "map" -> decode_map(data, pos + n, size)
              [] kind = "struct" -> decode_structure(data, pos + n, size)

\* _decode_value: the tests in the order of the code.
decode_value(data, pos) ==
    IF Short(data, pos, 1) THEN Undecoded
    ELSE LET marker == data[pos]
             next == pos + 1
         IN IF marker <= 127 THEN Decoded(PsInt(FALSE, StripZeros(<<marker>>)), next)
            ELSE IF marker <= 143 THEN decode_string(data, next, marker % 16)
            ELSE IF marker <= 159 THEN decode_list(data, next, marker % 16)
            ELSE IF marker <= 175 THEN decode_map(data, next, marker % 16)
            ELSE IF marker <= 191 THEN decode_structure(data, next, marker % 16)
            ELSE IF marker = NULL THEN Decoded(PsNull, next)
            ELSE IF marker = FLOAT_64 THEN Undecoded
            ELSE IF marker = MARKER_FALSE THEN Decoded(PsBool(FALSE), next)
            ELSE IF marker = MARKER_TRUE THEN Decoded(PsBool(TRUE), next)
            ELSE IF marker = INT_8 THEN decode_int(data, next, 1)
            ELSE IF marker = INT_16 THEN decode_int(data, next, 2)
            ELSE IF marker = INT_32 THEN decode_int(data, next, 4)
            ELSE IF marker = INT_64 THEN decode_int(data, next, 8)
            ELSE IF marker >= 240 THEN Decoded(PsInt(TRUE, <<256 - marker>>), next)
            ELSE IF marker = BYTES_8 THEN decode_sized("bytes", data, next, 1)
            ELSE IF marker = BYTES_16 THEN decode_sized("bytes", data, next, 2)
            ELSE IF marker = BYTES_32 THEN decode_sized("bytes", data, next, 4)
            ELSE IF marker = STRING_8 THEN decode_sized("str", data, next, 1)
            ELSE IF marker = STRING_16 THEN decode_sized("str", data, next, 2)
            ELSE IF marker = STRING_32 THEN decode_sized("str", data, next, 4)
            ELSE IF marker = LIST_8 THEN decode_sized("list", data, next, 1)
            ELSE IF marker = LIST_16 THEN decode_sized("list", data, next, 2)
            ELSE IF marker = LIST_32 THEN decode_sized("list", data, next, 4)
            ELSE IF marker = MAP_8 THEN decode_sized("map", data, next, 1)
            ELSE IF marker = MAP_16 THEN decode_sized("map", data, next, 2)
            ELSE IF marker = MAP_32 THEN decode_sized("map", data, next, 4)
            ELSE IF marker = STRUCT_8 THEN decode_sized("struct", data, next, 1)
            ELSE IF marker = STRUCT_16 THEN decode_sized("struct", data, next, 2)
            ELSE Undecoded

\* decode(data): the first value of data.
decode(data) == decode_value(data, 1).value

\* No value, nothing encoded.
NoCodec ==
    [value |-> PsNull, encoded |-> <<>>, decoded |-> PsNull, step |-> ""]

(***************************************************************************)
(* The state of one connection.                                            *)
(*   state           StateMachine._state                                   *)
(*   graph           the live graph (BoltSession.graph)                    *)
(*   in_transaction, tx_graph, current_result, last_qid   BoltSession      *)
(*   conv            BoltConnection._converter                             *)
(*   version         BoltConnection._negotiated_version                    *)
(*   more            the for loop of handle() still holds messages of the  *)
(*                   last socket read                                      *)
(*   closed          handle() has returned and the socket is closed        *)
(*   req, out        the request dispatched last and the messages written  *)
(*                   to the socket for it, in order                        *)
(*   pre             the state machine and session as that request found   *)
(*                   them                                                  *)
(*   issued          per node key, the first integer id a RUN of this      *)
(*                   connection converted it to (-1: none yet); followed   *)
(*                   under SpecIds only                                    *)
(*   tap             the socket as a client reading it sees it, followed   *)
(*                   under SpecPipe only: seq counts the requests taken    *)
(*                   up, cont tells whether the last one came from the     *)
(*                   same read as the one before, sent is how many         *)
(*                   messages of out the handler has written and drained,  *)
(*                   wire lists the messages written so far                *)
(*   offer           the bytes of the handshake a client sent, followed    *)
(*                   under SpecHandshake only                              *)
(* Two objects are also driven on their own, each under a specification of *)
(* its own:                                                                *)
(*   sm              a StateMachine and the last call made on it           *)
(*   ck              a ChunkWriter, the stream it framed and a ChunkReader *)
(*   query_result    a QueryResult, the last pull(n) made on it, the rows  *)
(*                   it returned, all rows returned so far and what        *)
(*                   has_more() answered after it                          *)
(*   bolt_session    a BoltSession, the last method called on it and       *)
(*                   whether the call raised                               *)
(*   loop            an event loop with MaxConns connections over one live *)
(*                   graph: the coroutine it is running (0: none), and per *)
(*                   connection where its handler stands, its transaction, *)
(*                   its last request and whether that request met the     *)
(*                   live graph while another connection was between the   *)
(*                   clear and the update of a commit                      *)
(*   server          a BoltServer: whether it is running, its connection   *)
(*                   set and, per accepted socket, where the task of       *)
(*                   _handle_connection stands or how it ended             *)
(*   codec           a PackStream value, the bytes encode made of it and   *)
(*                   the value decode made of the bytes                    *)
(*   result_converter  a ResultConverter, the value it converted last and  *)
(*                   what it made of it                                    *)
(***************************************************************************)
VARIABLES state, graph, in_transaction, tx_graph, current_result, last_qid,
          conv, version, more, closed, req, out, pre, issued, tap, offer,
          sm, ck, query_result, bolt_session, loop, server, codec, result_converter, read_loop, chunk_writer

vars == <<state, graph, in_transaction, tx_graph, current_result, last_qid,
          conv, version, more, closed, req, out, pre, issued, tap, offer,
          sm, ck, query_result, bolt_session, loop, server, codec, result_converter, read_loop, chunk_writer>>

\* The objects driven on their own.
units == <<sm, ck, query_result, bolt_session, loop, server, codec, result_converter, read_loop, chunk_writer>>

\* The variables of one connection.
connection == <<state, graph, in_transaction, tx_graph, current_result,
                last_qid, conv, version, more, closed, req, out, pre, issued>>

session == <<graph, in_transaction, tx_graph, current_result, last_qid>>

Snapshot ==
    [state |-> state, graph |-> graph, in_transaction |-> in_transaction,
     tx_graph |-> tx_graph, current_result |-> current_result,
     last_qid |-> last_qid, conv |-> conv]

TapOff == [on |-> FALSE, seq |-> 0, cont |-> FALSE, sent |-> 0, wire |-> <<>>]

NoOffer == [magic |-> <<>>, slots |-> <<>>]

\* A connection as __init__ leaves it, on the graph g.
Accepted(g) ==
    /\ state = "NEGOTIATION"
    /\ graph = g
    /\ in_transaction = FALSE
    /\ tx_graph = None
    /\ current_result = None
    /\ last_qid = -1
    /\ conv = NewConverter
    /\ version = NoVersion
    /\ more = FALSE
    /\ closed = FALSE
    /\ req = Plain("NONE")
    /\ out = <<>>
    /\ pre = Snapshot
    /\ issued = [k \in Keys |-> -1]
    /\ offer = NoOffer

Init ==
    /\ \E g \in SUBSET Keys : Accepted(g)
    /\ tap = TapOff
    /\ query_result = NoPull
    /\ bolt_session = NewBoltSession
    /\ loop = NoLoop
    /\ server = NewBoltServer
    /\ codec = NoCodec
    /\ result_converter = NewResultConverter
    /\ read_loop = NoReads
    /\ chunk_writer = NoWriter
    /\ sm = NewStateMachine
    /\ ck = NoChunks

(***************************************************************************)
(* handle(), lines 109-110, and _send_message, lines 577-582: a handler is *)
(* awaited, and it awaits the drain of each message it writes, before the  *)
(* loop takes up the next message or reads again.                          *)
(***************************************************************************)
\* A loop that takes up the next message while a handler is still writing.
HandlerNotAwaited == TRUE

\* The handler of the last request has written all its messages.
HandlerDone == tap.sent = Len(out)

NextRequest ==
    /\ tap.on => (HandlerDone /\ tap.seq < MaxReq)
    /\ tap' = IF tap.on
              THEN [tap EXCEPT !.seq = @ + 1, !.cont = more, !.sent = 0]
              ELSE tap

\* The running handler writes its next message and the drain returns.
Send ==
    /\ tap.on
    /\ tap.sent < Len(out)
    /\ tap' = [tap EXCEPT
                 !.sent = @ + 1,
                 !.wire = Append(@, [n |-> tap.seq, cont |-> tap.cont,
                                     i |-> tap.sent + 1, of |-> Len(out)])]
    /\ UNCHANGED <<connection, offer, units>>

(***************************************************************************)
(* _handshake.  A wrong magic preamble or a short read closes the          *)
(* connection with nothing written; no common version writes 00 00 00 00   *)
(* and closes; otherwise the version is written as 00 00 minor major.      *)
(***************************************************************************)
\* _handshake returned False: handle() returns and _close() closes the socket.
\* A refusal after which the read loop is entered all the same.
handshake_refused_loop == closed' = FALSE /\ UNCHANGED <<state, version>>

handshake_refused == closed' = TRUE /\ UNCHANGED <<state, version>>

\* magic: the bytes read for the preamble (fewer than 4: the stream ended);
\* slots: the 4-byte proposals read (fewer than 4: the stream ended).
handshake(magic, slots) ==
    /\ state = "NEGOTIATION"
    /\ ~closed
    /\ NextRequest
    /\ req' = Plain("HANDSHAKE")
    /\ pre' = Snapshot
    /\ IF Len(magic) < 4 \/ magic # BOLT_MAGIC \/ Len(slots) < 4
       THEN out' = <<>> /\ handshake_refused
       ELSE LET selected == SelectVersion([i \in 1..4 |-> DecodeProposal(slots[i])])
            IN IF selected = NoVersion
               THEN /\ out' = <<[BaseMsg EXCEPT !.tag = "VERSION",
                                                !.bytes = <<0, 0, 0, 0>>]>>
                    /\ handshake_refused
               ELSE /\ out' = <<[BaseMsg EXCEPT
                                    !.tag = "VERSION",
                                    !.bytes = Pack32(selected[2] * 256 + selected[1])]>>
                    /\ version' = selected
                    /\ state' = "AUTHENTICATION"
                    /\ closed' = closed
    /\ UNCHANGED <<session, conv, more, issued, units>>

Handshake ==
    /\ state = "NEGOTIATION"
    /\ \E magic \in {BOLT_MAGIC, WrongMagic}, proposals \in [1..4 -> ProposalSet] :
          /\ handshake(magic, [i \in 1..4 |-> EncodeProposal(proposals[i])])
          /\ offer' = offer

\* The handshakes of a client whose bytes are followed in offer.
Magics == {BOLT_MAGIC, WrongMagic, <<96, 96>>}

WideSlots ==
    {<<0, 0, 0, 0>>, <<0, 0, 4, 4>>, <<0, 0, 4, 5>>, <<0, 2, 2, 5>>,
     <<0, 1, 5, 4>>, <<0, 0, 3, 5>>, <<1, 0, 3, 4>>}

HandshakeOffered ==
    /\ state = "NEGOTIATION"
    /\ \E magic \in Magics, k \in 3..4 : \E slots \in [1..k -> WideSlots] :
          /\ handshake(magic, slots)
          /\ offer' = [magic |-> magic, slots |-> slots]

(***************************************************************************)
(* handle(): the read loop.  Recv(r) is the dispatch of request r, either  *)
(* the next message of the last read (more) or the first message of a new  *)
(* read, which the loop makes only while the state is not DEFUNCT.         *)
(***************************************************************************)
Recv(r) ==
    /\ ~closed
    /\ state # "NEGOTIATION"
    /\ more \/ state # "DEFUNCT"
    /\ NextRequest
    /\ req' = r
    /\ pre' = Snapshot
    /\ UNCHANGED <<offer, units>>

\* The handler returned in state s after writing msgs.
Returned(s, msgs) ==
    /\ state' = s
    /\ out' = msgs
    /\ more' \in BOOLEAN
    /\ closed' = closed

\* The handler raised in state s after writing msgs: lines 116-122 write a
\* FAILURE and call transition_to(FAILED); the rest of the read is dropped.
\* When that transition is invalid the ValueError ends handle().
Raised(s, msgs) ==
    /\ out' = Append(msgs, create_failure(RequestInvalid))
    /\ more' = FALSE
    /\ IF can_transition_to(s, "FAILED")
       THEN state' = "FAILED" /\ closed' = closed
       ELSE state' = s /\ closed' = TRUE

\* _read_messages returned no message: the read timed out or hit the end of
\* the stream (mark_defunct), and the loop breaks.
ReadEof ==
    /\ ~closed /\ ~more
    /\ NextRequest
    /\ UNCHANGED <<offer, units>>
    /\ state \notin {"NEGOTIATION", "DEFUNCT"}
    /\ req' = Plain("EOF")
    /\ pre' = Snapshot
    /\ out' = <<>>
    /\ state' = "DEFUNCT"
    /\ UNCHANGED <<session, conv, version, more, closed, issued>>

\* The read held no complete, decodable Structure: messages is empty and the
\* loop breaks without touching the state machine.
ReadNoMessage ==
    /\ ~closed /\ ~more
    /\ NextRequest
    /\ UNCHANGED <<offer, units>>
    /\ state \notin {"NEGOTIATION", "DEFUNCT"}
    /\ req' = Plain("NOMESSAGE")
    /\ pre' = Snapshot
    /\ out' = <<>>
    /\ closed' = TRUE
    /\ UNCHANGED <<state, session, conv, version, more, issued>>

\* _read_messages, lines 223-232: a complete message that does not decode, or
\* decodes to something that is no Structure, is logged and left out of the
\* list.  alone: the read held nothing else, the list is empty and the loop
\* breaks; otherwise the other messages of the read are dispatched.
ReadUndecodable ==
    \E alone \in BOOLEAN :
        /\ ~closed /\ ~more
        /\ NextRequest
        /\ UNCHANGED <<offer, units>>
        /\ state \notin {"NEGOTIATION", "DEFUNCT"}
        /\ req' = Plain("UNDECODABLE")
        /\ pre' = Snapshot
        /\ out' = <<>>
        /\ IF alone THEN closed' = TRUE /\ more' = more
           ELSE closed' = closed /\ more' = TRUE
        /\ UNCHANGED <<state, session, conv, version, issued>>

\* The loop ends on DEFUNCT and _close() closes the socket.
Close ==
    /\ ~closed /\ ~more
    /\ state = "DEFUNCT"
    /\ tap.on => HandlerDone
    /\ closed' = TRUE
    /\ UNCHANGED <<state, session, conv, version, more, req, out, pre, issued,
                   tap, offer, units>>

(***************************************************************************)
(* The message handlers of connection.py.                                  *)
(***************************************************************************)
\* The answer of RUN, PULL, DISCARD, BEGIN, COMMIT and ROLLBACK to a state
\* they do not accept: IGNORED in FAILED, a FAILURE elsewhere; no change.
Refused ==
    /\ Returned(state, IF state = "FAILED" THEN <<create_ignored>>
                       ELSE <<create_failure(RequestInvalid)>>)
    /\ UNCHANGED <<session, conv, version, issued>>

\* Hints sent to every version that gets a qid.
HelloMetadataHintsFrom4 ==
    {"server", "connection_id"}
        \cup (IF version # NoVersion /\ version[1] >= 4 THEN {"hints"} ELSE {})

HelloMetadata ==
    {"server", "connection_id"}
        \cup (IF version # NoVersion /\ version[1] >= 5 THEN {"hints"} ELSE {})

handle_hello(r) ==
    IF state # "AUTHENTICATION"
    THEN /\ Returned(state, <<create_ignored>>)
         /\ UNCHANGED <<session, conv, version, issued>>
    ELSE IF ~r.wellformed
    THEN /\ Raised(state, <<>>)
         /\ UNCHANGED <<session, conv, version, issued>>
    ELSE /\ IF can_transition_to(state, "READY")
            THEN Returned("READY", <<create_success(HelloMetadata)>>)
            ELSE Raised(state, <<create_success(HelloMetadata)>>)
         /\ UNCHANGED <<session, conv, version, issued>>

HandleHello ==
    \E tag \in {"HELLO", "LOGON"}, wf \in BOOLEAN :
        LET r == Request(tag, NoQuery, -1, wf)
        IN Recv(r) /\ (wf \/ state = "AUTHENTICATION") /\ handle_hello(r)

handle_goodbye ==
    /\ Returned("DEFUNCT", <<>>)
    /\ UNCHANGED <<session, conv, version, issued>>

HandleGoodbye == Recv(Plain("GOODBYE")) /\ handle_goodbye

\* A RESET that does not call clear_result.
handle_reset_keeps_result ==
    /\ current_result' = current_result
    /\ IF in_transaction
       THEN tx_graph' = None /\ in_transaction' = FALSE
       ELSE UNCHANGED <<tx_graph, in_transaction>>
    /\ Returned(sm_reset(state), <<create_success({})>>)
    /\ UNCHANGED <<graph, last_qid, conv, version, issued>>

\* clear_result, rollback_transaction when in a transaction, StateMachine.reset.
handle_reset ==
    /\ current_result' = None
    /\ IF in_transaction
       THEN tx_graph' = None /\ in_transaction' = FALSE
       ELSE UNCHANGED <<tx_graph, in_transaction>>
    /\ Returned(sm_reset(state), <<create_success({})>>)
    /\ UNCHANGED <<graph, last_qid, conv, version, issued>>

HandleReset == Recv(Plain("RESET")) /\ handle_reset

\* BoltSession.get_working_graph
get_working_graph ==
    IF in_transaction /\ ~IsNone(tx_graph) THEN Get(tx_graph) ELSE graph

\* An engine that is left bound to the live graph inside a transaction.
SetLiveGraph(g) == graph' = g /\ tx_graph' = tx_graph

\* The engine changes the working graph in place.
SetWorkingGraph(g) ==
    IF in_transaction /\ ~IsNone(tx_graph)
    THEN tx_graph' = Some(g) /\ graph' = graph
    ELSE graph' = g /\ tx_graph' = tx_graph

RunMetadata ==
    {"fields", "t_first"}
        \cup (IF version # NoVersion /\ version[1] >= 4 THEN {"qid"} ELSE {})

\* issued, with the ids of the nodes of records added for the keys that had none.
Issue(iss, records) ==
    [k \in Keys |->
        IF iss[k] # -1 THEN iss[k]
        ELSE LET hits == {i \in 1..Len(records) :
                            records[i][1].kind = "node" /\ records[i][1].elem = k}
             IN IF hits = {} THEN -1
                ELSE records[CHOOSE i \in hits : \A j \in hits : i <= j][1].val]

\* A RUN that goes to STREAMING whatever the session says.
RunTargetStreaming == "STREAMING"

\* The state a successful RUN goes to, lines 347-350.
RunTarget == IF in_transaction THEN "TX_STREAMING" ELSE "STREAMING"

\* A set_result that returns the qid of the result before.
set_result_stale(qid) == qid

\* BoltSession.set_result, lines 152-153: the qid it counts up to and returns.
set_result(qid) == qid + 1

\* track: the specification follows the ids sent to the client in issued.
handle_run(r, track) ==
    IF state \notin {"READY", "TX_READY"}
    THEN Refused
    ELSE IF ~r.wellformed
    THEN /\ Raised(state, <<>>)
         /\ UNCHANGED <<session, conv, version, issued>>
    ELSE LET res == EngineRun(r.q, get_working_graph)
             cr == convert_result(conv, res)
             target == RunTarget
             run_success ==
                 [create_success(RunMetadata) EXCEPT
                     !.fields = cr.result.fields,
                     !.qid = IF "qid" \in RunMetadata THEN set_result(last_qid) ELSE -1]
         IN IF ~res.ok
            THEN /\ IF can_transition_to(state, "FAILED")
                    THEN Returned("FAILED", <<create_failure(SyntaxError)>>)
                    ELSE Raised(state, <<create_failure(SyntaxError)>>)
                 /\ UNCHANGED <<session, conv, version, issued>>
            ELSE /\ last_qid < MaxQid
                 /\ SetWorkingGraph(res.graph)
                 /\ conv' = cr.conv
                 /\ issued' = IF track THEN Issue(issued, cr.result.records) ELSE issued
                 /\ current_result' = Some(cr.result)
                 /\ last_qid' = set_result(last_qid)
                 /\ IF can_transition_to(state, target)
                    THEN Returned(target, <<run_success>>)
                    ELSE Returned("FAILED", <<create_failure(SyntaxError)>>)
                 /\ UNCHANGED <<in_transaction, version>>

\* A malformed RUN is told from a well-formed one only where its fields are read.
RunWith(queries, track) ==
    \/ \E q \in queries :
          LET r == Request("RUN", q, -1, TRUE)
          IN Recv(r) /\ handle_run(r, track)
    \/ LET r == Request("RUN", NoQuery, -1, FALSE)
       IN Recv(r) /\ state \in {"READY", "TX_READY"} /\ handle_run(r, track)

HandleRun == RunWith(GraphQueries, FALSE)

HandleRunIds == RunWith(GraphQueries, TRUE)

HandleRunStream == RunWith(StreamQueries, FALSE)

\* The RECORD messages of rows, in order.
Records(rows) == [i \in 1..Len(rows) |-> create_record(rows[i])]

\* An exhausted result that sends the state to READY inside a transaction too.
ReadyStateOutsideOnly == "READY"

\* The state PULL and DISCARD go to when the result is exhausted.
ReadyState == IF in_transaction THEN "TX_READY" ELSE "READY"

handle_pull(r) ==
    IF state \notin {"STREAMING", "TX_STREAMING"}
    THEN Refused
    ELSE IF ~r.wellformed
    THEN /\ Raised(state, <<>>)
         /\ UNCHANGED <<session, conv, version, issued>>
    ELSE IF IsNone(current_result)
    THEN /\ Returned(state, <<create_failure(RequestInvalid)>>)
         /\ UNCHANGED <<session, conv, version, issued>>
    ELSE LET p == pull(Get(current_result), r.n)
             more_left == has_more(p.result)
             summary ==
                 [create_success(IF more_left THEN {"has_more", "t_last"}
                                 ELSE {"has_more", "t_last", "type", "stats"})
                     EXCEPT !.has_more = more_left]
         IN /\ IF more_left
               THEN /\ current_result' = Some(p.result)
                    /\ Returned(state, Append(Records(p.rows), summary))
               ELSE IF can_transition_to(state, ReadyState)
               THEN /\ current_result' = None
                    /\ Returned(ReadyState, Append(Records(p.rows), summary))
               ELSE /\ current_result' = Some(p.result)
                    /\ Raised(state, Records(p.rows))
            /\ UNCHANGED <<graph, in_transaction, tx_graph, last_qid, conv,
                           version, issued>>

HandlePull ==
    \/ \E n \in PullSizes :
          LET r == Request("PULL", NoQuery, n, TRUE)
          IN Recv(r) /\ handle_pull(r)
    \/ LET r == Request("PULL", NoQuery, -1, FALSE)
       IN Recv(r) /\ state \in {"STREAMING", "TX_STREAMING"} /\ handle_pull(r)

handle_discard(r) ==
    IF state \notin {"STREAMING", "TX_STREAMING"}
    THEN Refused
    ELSE IF ~r.wellformed
    THEN /\ Raised(state, <<>>)
         /\ UNCHANGED <<session, conv, version, issued>>
    ELSE LET d == IF IsNone(current_result) THEN None
                  ELSE Some(discard(Get(current_result), r.n))
             more_left == IF IsNone(d) THEN FALSE ELSE has_more(Get(d))
             summary == [create_success({"has_more"}) EXCEPT !.has_more = more_left]
         IN /\ IF more_left
               THEN /\ current_result' = d
                    /\ Returned(state, <<summary>>)
               ELSE IF can_transition_to(state, ReadyState)
               THEN /\ current_result' = None
                    /\ Returned(ReadyState, <<summary>>)
               ELSE /\ current_result' = d
                    /\ Raised(state, <<>>)
            /\ UNCHANGED <<graph, in_transaction, tx_graph, last_qid, conv,
                           version, issued>>

HandleDiscard ==
    \/ \E n \in PullSizes :
          LET r == Request("DISCARD", NoQuery, n, TRUE)
          IN Recv(r) /\ handle_discard(r)
    \/ LET r == Request("DISCARD", NoQuery, -1, FALSE)
       IN Recv(r) /\ state \in {"STREAMING", "TX_STREAMING"} /\ handle_discard(r)

TransactionStartFailed == "Neo.ClientError.Transaction.TransactionStartFailed"
TransactionCommitFailed == "Neo.ClientError.Transaction.TransactionCommitFailed"
TransactionRollbackFailed == "Neo.ClientError.Transaction.TransactionRollbackFailed"

\* BoltSession.begin_transaction: the copy.deepcopy of the live graph.
begin_transaction ==
    /\ tx_graph' = Some(graph)
    /\ in_transaction' = TRUE
    /\ graph' = graph

handle_begin ==
    IF state # "READY"
    THEN Refused
    ELSE IF in_transaction
    THEN /\ Returned(state, <<create_failure(TransactionStartFailed)>>)
         /\ UNCHANGED <<session, conv, version, issued>>
    ELSE /\ begin_transaction
         /\ IF can_transition_to(state, "TX_READY")
            THEN Returned("TX_READY", <<create_success({})>>)
            ELSE Returned(state, <<create_failure(TransactionStartFailed)>>)
         /\ UNCHANGED <<current_result, last_qid, conv, version, issued>>

HandleBegin == Recv(Plain("BEGIN")) /\ handle_begin

\* A commit that updates the live graph without clearing it first.
commit_without_clear ==
    /\ graph' = IF IsNone(tx_graph) THEN graph ELSE graph \cup Get(tx_graph)
    /\ tx_graph' = None
    /\ in_transaction' = FALSE

\* BoltSession.commit_transaction: graph.clear() then graph.update(tx_graph),
\* with no suspension point between them.
commit_transaction ==
    /\ graph' = IF IsNone(tx_graph) THEN graph ELSE Get(tx_graph)
    /\ tx_graph' = None
    /\ in_transaction' = FALSE

\* The converter a COMMIT leaves behind: line 495 builds a new one.
CommitConverter == NewConverter

handle_commit ==
    IF state # "TX_READY"
    THEN Refused
    ELSE IF ~in_transaction
    THEN /\ Returned(state, <<create_failure(TransactionCommitFailed)>>)
         /\ UNCHANGED <<session, conv, version, issued>>
    ELSE /\ commit_transaction
         /\ IF can_transition_to(state, "READY")
            THEN /\ conv' = CommitConverter
                 /\ Returned("READY", <<create_success({})>>)
            ELSE /\ conv' = conv
                 /\ Returned(state, <<create_failure(TransactionCommitFailed)>>)
         /\ UNCHANGED <<current_result, last_qid, version, issued>>

HandleCommit == Recv(Plain("COMMIT")) /\ handle_commit

\* A rollback that drops the copy and leaves the flag set.
rollback_keeps_flag ==
    /\ tx_graph' = None
    /\ in_transaction' = in_transaction
    /\ graph' = graph

\* BoltSession.rollback_transaction
rollback_transaction ==
    /\ tx_graph' = None
    /\ in_transaction' = FALSE
    /\ graph' = graph

handle_rollback ==
    IF state # "TX_READY"
    THEN Refused
    ELSE IF ~in_transaction
    THEN /\ Returned(state, <<create_failure(TransactionRollbackFailed)>>)
         /\ UNCHANGED <<session, conv, version, issued>>
    ELSE /\ rollback_transaction
         /\ IF can_transition_to(state, "READY")
            THEN Returned("READY", <<create_success({})>>)
            ELSE Returned(state, <<create_failure(TransactionRollbackFailed)>>)
         /\ UNCHANGED <<current_result, last_qid, conv, version, issued>>

HandleRollback == Recv(Plain("ROLLBACK")) /\ handle_rollback

\* _handle_route, _handle_logoff and _handle_telemetry read no state.
handle_route ==
    /\ Returned(state, <<create_success({"rt"})>>)
    /\ UNCHANGED <<session, conv, version, issued>>

HandleRoute == Recv(Plain("ROUTE")) /\ handle_route

handle_logoff ==
    /\ Returned(state, <<create_success({})>>)
    /\ UNCHANGED <<session, conv, version, issued>>

HandleLogoff == Recv(Plain("LOGOFF")) /\ handle_logoff

handle_telemetry ==
    /\ Returned(state, <<create_success({})>>)
    /\ UNCHANGED <<session, conv, version, issued>>

HandleTelemetry == Recv(Plain("TELEMETRY")) /\ handle_telemetry

\* _dispatch_message, lines 260-265: a tag with no handler.
handle_unknown ==
    /\ Returned(state, <<create_failure(RequestInvalid)>>)
    /\ UNCHANGED <<session, conv, version, issued>>

HandleUnknown == Recv(Plain("UNKNOWN")) /\ handle_unknown

Protocol ==
    \/ Handshake
    \/ ReadEof
    \/ ReadNoMessage
    \/ ReadUndecodable
    \/ Close
    \/ HandleHello
    \/ HandleGoodbye
    \/ HandleReset
    \/ HandlePull
    \/ HandleDiscard
    \/ HandleBegin
    \/ HandleCommit
    \/ HandleRollback
    \/ HandleRoute
    \/ HandleLogoff
    \/ HandleTelemetry
    \/ HandleUnknown

\* A client that reads and writes the graph.
Next == Protocol \/ HandleRun

Spec == Init /\ [][Next]_vars

\* The same client, with the ids its RUNs were sent followed in issued.
NextIds == Protocol \/ HandleRunIds

SpecIds == Init /\ [][NextIds]_vars

\* A client that streams a result of MaxRows records.
NextStream == Protocol \/ HandleRunStream

InitStream == Init /\ graph = Keys

SpecStream == InitStream /\ [][NextStream]_vars

\* A client that streams results of MaxRows records and of none, and that
\* goes on pulling: a PULL with n # 0 is sent again and again for as long as
\* the connection is open and a result is streaming.
DrainQueries == StreamQueries \cup {[op |-> "unwind", arg |-> 0]}

HandleRunDrain == RunWith(DrainQueries, FALSE)

DrainPull ==
    /\ state \in {"STREAMING", "TX_STREAMING"}
    /\ \E n \in PullSizes \ {0} :
          LET r == Request("PULL", NoQuery, n, TRUE)
          IN Recv(r) /\ handle_pull(r)

NextDrain == Protocol \/ HandleRunDrain

SpecDrain == InitStream /\ [][NextDrain]_vars /\ WF_vars(DrainPull)

\* A client whose requests arrive several to a read and whose socket is
\* followed message by message.
NextPipe == NextStream \/ Send

InitPipe ==
    /\ Accepted(Keys)
    /\ tap = [TapOff EXCEPT !.on = TRUE]
    /\ query_result = NoPull
    /\ bolt_session = NewBoltSession
    /\ loop = NoLoop
    /\ server = NewBoltServer
    /\ codec = NoCodec
    /\ result_converter = NewResultConverter
    /\ read_loop = NoReads
    /\ chunk_writer = NoWriter
    /\ sm = NewStateMachine
    /\ ck = NoChunks

SpecPipe == InitPipe /\ [][NextPipe]_vars

\* A client whose handshake bytes are followed, and that logs in and leaves.
NextHandshake ==
    \/ HandshakeOffered
    \/ HandleHello
    \/ HandleGoodbye
    \/ ReadEof
    \/ Close

InitHandshake == Init /\ graph = {}

SpecHandshake == InitHandshake /\ [][NextHandshake]_vars

(***************************************************************************)
(* A StateMachine driven by every call of its interface.                   *)
(***************************************************************************)
Called(op, arg, s, raised, result) ==
    /\ sm' = [state |-> s, op |-> op, arg |-> arg, from |-> sm.state,
              raised |-> raised, result |-> result]
    /\ UNCHANGED <<connection, tap, offer, ck, query_result, bolt_session, loop, server, codec, result_converter, read_loop, chunk_writer>>

CallTransitionTo ==
    \E t \in ConnectionState :
        LET r == transition_to(sm.state, t)
        IN Called("transition_to", t, r.state, r.raised, FALSE)

CallCanTransitionTo ==
    \E t \in ConnectionState :
        Called("can_transition_to", t, sm.state, FALSE, can_transition_to(sm.state, t))

CallReset == Called("reset", "", sm_reset(sm.state), FALSE, FALSE)

CallMarkDefunct == Called("mark_defunct", "", mark_defunct(sm.state), FALSE, FALSE)

CallIsDefunct == Called("is_defunct", "", sm.state, FALSE, is_defunct(sm.state))

CallIsInTransaction ==
    Called("is_in_transaction", "", sm.state, FALSE, is_in_transaction(sm.state))

CallIsStreaming == Called("is_streaming", "", sm.state, FALSE, is_streaming(sm.state))

NextStateMachine ==
    \/ CallTransitionTo
    \/ CallCanTransitionTo
    \/ CallReset
    \/ CallMarkDefunct
    \/ CallIsDefunct
    \/ CallIsInTransaction
    \/ CallIsStreaming

InitStateMachine == Init /\ graph = {}

SpecStateMachine == InitStateMachine /\ [][NextStateMachine]_vars

(***************************************************************************)
(* A ChunkWriter frames one to MaxMsgs messages; the framed bytes reach a  *)
(* fresh ChunkReader in slices of any length.                              *)
(***************************************************************************)
Bytes == {0, 1}

Messages == UNION {[1..n -> Bytes] : n \in 0..MaxMsgLen}

RECURSIVE Framed(_, _)
Framed(msgs, size) ==
    IF Len(msgs) = 0 THEN <<>>
    ELSE write(Head(msgs), size) \o Framed(Tail(msgs), size)

InitChunks ==
    /\ Accepted({})
    /\ tap = TapOff
    /\ query_result = NoPull
    /\ bolt_session = NewBoltSession
    /\ loop = NoLoop
    /\ server = NewBoltServer
    /\ codec = NoCodec
    /\ result_converter = NewResultConverter
    /\ read_loop = NoReads
    /\ chunk_writer = NoWriter
    /\ sm = NewStateMachine
    /\ \E size \in 1..MaxChunk, n \in 1..MaxMsgs : \E msgs \in [1..n -> Messages] :
          ck = [size |-> size, msgs |-> msgs,
                written |-> [i \in 1..n |-> write(msgs[i], size)],
                stream |-> Framed(msgs, size),
                reader |-> NewChunkReader, got |-> <<>>]

\* One call of feed with the next k bytes of the stream.
Feed ==
    \E k \in 0..Len(ck.stream) :
        LET r == feed(ck.reader, SubSeq(ck.stream, 1, k))
        IN /\ ck' = [ck EXCEPT !.reader = r.reader,
                               !.got = @ \o r.messages,
                               !.stream = SubSeq(ck.stream, k + 1, Len(ck.stream))]
           /\ UNCHANGED <<connection, tap, offer, sm, query_result, bolt_session, loop, server, codec, result_converter, read_loop, chunk_writer>>

SpecChunks == InitChunks /\ [][Feed]_vars

\* clear() is called on the reader, wherever it stands in its stream, and
\* the bytes of another stream are fed to it from then on.
Clear ==
    /\ \E size \in 1..MaxChunk, n \in 1..MaxMsgs : \E msgs \in [1..n -> Messages] :
          ck' = [size |-> size, msgs |-> msgs,
                 written |-> [i \in 1..n |-> write(msgs[i], size)],
                 stream |-> Framed(msgs, size),
                 reader |-> clear(ck.reader), got |-> <<>>]
    /\ UNCHANGED <<connection, tap, offer, sm, query_result, bolt_session, loop, server, codec, result_converter, read_loop, chunk_writer>>

NextChunksCleared == Feed \/ Clear

SpecChunksCleared == InitChunks /\ [][NextChunksCleared]_vars

(***************************************************************************)
(* A QueryResult of up to MaxRows records and the calls of pull made on    *)
(* it; has_more() is asked after every pull.                               *)
(***************************************************************************)
InitQueryResult ==
    /\ Accepted({})
    /\ tap = TapOff
    /\ bolt_session = NewBoltSession
    /\ loop = NoLoop
    /\ server = NewBoltServer
    /\ codec = NoCodec
    /\ result_converter = NewResultConverter
    /\ read_loop = NoReads
    /\ chunk_writer = NoWriter
    /\ sm = NewStateMachine
    /\ ck = NoChunks
    /\ \E k \in 0..MaxRows :
          query_result = [NoPull EXCEPT !.result = [fields |-> <<"x">>,
                                          records |-> [i \in 1..k |-> <<IntValue(i)>>],
                                          cursor |-> 0]]

\* pull(n); n stays the argument of the last pull.
CallPull ==
    \E n \in PullSizes :
        LET r == pull(query_result.result, n)
        IN /\ query_result' = [query_result EXCEPT !.result = r.result,
                                                   !.op = "pull",
                                                   !.n = n,
                                                   !.rows = r.rows,
                                                   !.taken = @ \o r.rows]
           /\ UNCHANGED <<connection, tap, offer, sm, ck, bolt_session, loop, server, codec, result_converter, read_loop, chunk_writer>>

CallHasMore ==
    /\ query_result' = [query_result EXCEPT !.op = "has_more",
                                            !.has_more = has_more(query_result.result)]
    /\ UNCHANGED <<connection, tap, offer, sm, ck, bolt_session, loop, server, codec, result_converter, read_loop, chunk_writer>>

NextQueryResult == CallPull \/ CallHasMore

SpecQueryResult == InitQueryResult /\ [][NextQueryResult]_vars

(***************************************************************************)
(* A BoltSession over a graph of its own and the methods called on it in   *)
(* any order, as any caller of the class may.                              *)
(***************************************************************************)
InitSession ==
    /\ Accepted({})
    /\ tap = TapOff
    /\ loop = NoLoop
    /\ server = NewBoltServer
    /\ codec = NoCodec
    /\ result_converter = NewResultConverter
    /\ read_loop = NoReads
    /\ chunk_writer = NoWriter
    /\ sm = NewStateMachine
    /\ ck = NoChunks
    /\ query_result = NoPull
    /\ \E g \in SUBSET Keys : bolt_session = [NewBoltSession EXCEPT !.graph = g]

CallBegin ==
    /\ bolt_session' = begin(bolt_session)
    /\ UNCHANGED <<connection, tap, offer, sm, ck, query_result, loop, server, codec, result_converter, read_loop, chunk_writer>>

CallCommit ==
    /\ bolt_session' = commit(bolt_session)
    /\ UNCHANGED <<connection, tap, offer, sm, ck, query_result, loop, server, codec, result_converter, read_loop, chunk_writer>>

CallRollback ==
    /\ bolt_session' = rollback(bolt_session)
    /\ UNCHANGED <<connection, tap, offer, sm, ck, query_result, loop, server, codec, result_converter, read_loop, chunk_writer>>

CallGetWorkingGraph ==
    /\ \E k \in Keys, add \in BOOLEAN :
          bolt_session' = working_graph_write(bolt_session, k, add)
    /\ UNCHANGED <<connection, tap, offer, sm, ck, query_result, loop, server, codec, result_converter, read_loop, chunk_writer>>

\* set_result with an empty QueryResult.
CallSetResult ==
    /\ bolt_session.last_qid < MaxQid
    /\ bolt_session' = [bolt_session EXCEPT
                           !.current_result = Some(NoPull.result),
                           !.last_qid = set_result(@),
                           !.op = "set_result", !.raised = FALSE]
    /\ UNCHANGED <<connection, tap, offer, sm, ck, query_result, loop, server, codec, result_converter, read_loop, chunk_writer>>

CallClearResult ==
    /\ bolt_session' = [bolt_session EXCEPT !.current_result = None,
                                            !.op = "clear_result",
                                            !.raised = FALSE]
    /\ UNCHANGED <<connection, tap, offer, sm, ck, query_result, loop, server, codec, result_converter, read_loop, chunk_writer>>

NextSession ==
    \/ CallBegin
    \/ CallCommit
    \/ CallRollback
    \/ CallGetWorkingGraph
    \/ CallSetResult
    \/ CallClearResult

SpecSession == InitSession /\ [][NextSession]_vars

(***************************************************************************)
(* MaxConns connections of one server, each past HELLO, take RUN, BEGIN    *)
(* and COMMIT in any interleaving the event loop allows.                   *)
(***************************************************************************)
InitLoop ==
    /\ Accepted({})
    /\ tap = TapOff
    /\ server = NewBoltServer
    /\ codec = NoCodec
    /\ result_converter = NewResultConverter
    /\ read_loop = NoReads
    /\ chunk_writer = NoWriter
    /\ sm = NewStateMachine
    /\ ck = NoChunks
    /\ query_result = NoPull
    /\ bolt_session = NewBoltSession
    /\ \E g \in SUBSET Keys : loop = [NoLoop EXCEPT !.graph = g]

\* The loop lets the handler of c run: it is running already, or nothing is
\* running and c stands at an await.
MayRun(c) ==
    \/ loop.running = c
    \/ loop.running = 0 /\ Suspends(loop.conns[c].pc)

\* Another connection stands between graph.clear() and graph.update().
MidCommit(c) == \E d \in Conns \ {c} : loop.conns[d].pc = "cleared"

\* The handler of c has gone on to pc; the loop keeps running it unless it
\* awaits there.
Step(c, task, g) ==
    /\ loop' = [graph |-> g,
                running |-> IF Suspends(task.pc) THEN 0 ELSE c,
                conns |-> [loop.conns EXCEPT ![c] = task]]
    /\ UNCHANGED <<connection, tap, offer, sm, ck, query_result, bolt_session, server, codec, result_converter, read_loop, chunk_writer>>

\* A RUN that is executed against the live graph inside a transaction too.
LoopRunLive(c) ==
    LET t == loop.conns[c]
    IN /\ MayRun(c)
       /\ Suspends(t.pc)
       /\ \E k \in Keys, add \in BOOLEAN :
             LET w == IF add THEN loop.graph \cup {k} ELSE loop.graph \ {k}
             IN Step(c, [t EXCEPT !.pc = "await_drain", !.last = "RUN",
                                  !.torn = ~t.in_transaction /\ MidCommit(c)], w)

\* _handle_run up to the await of _send_success: the query reads or writes
\* the working graph.
LoopRun(c) ==
    LET t == loop.conns[c]
    IN /\ MayRun(c)
       /\ Suspends(t.pc)
       /\ \E k \in Keys, add \in BOOLEAN :
             LET g == IF t.in_transaction THEN Get(t.tx_graph) ELSE loop.graph
                 w == IF add THEN g \cup {k} ELSE g \ {k}
                 ran == [t EXCEPT !.pc = "await_drain", !.last = "RUN",
                                  !.torn = ~t.in_transaction /\ MidCommit(c)]
             IN IF t.in_transaction
                THEN Step(c, [ran EXCEPT !.tx_graph = Some(w)], loop.graph)
                ELSE Step(c, ran, w)

\* _handle_begin up to the await of _send_success: deep copy of the live graph.
LoopBegin(c) ==
    LET t == loop.conns[c]
    IN /\ MayRun(c)
       /\ Suspends(t.pc)
       /\ ~t.in_transaction
       /\ Step(c, [t EXCEPT !.pc = "await_drain", !.last = "BEGIN",
                            !.in_transaction = TRUE,
                            !.tx_graph = Some(loop.graph),
                            !.torn = MidCommit(c)],
               loop.graph)

\* _handle_commit up to graph.clear(), session.py line 125.
LoopCommitClear(c) ==
    LET t == loop.conns[c]
    IN /\ MayRun(c)
       /\ Suspends(t.pc)
       /\ t.in_transaction
       /\ Step(c, [t EXCEPT !.pc = "cleared", !.last = "COMMIT",
                            !.torn = MidCommit(c)],
               {})

\* graph.update(tx_graph), line 126, and on to the await of _send_success.
LoopCommitUpdate(c) ==
    LET t == loop.conns[c]
    IN /\ MayRun(c)
       /\ t.pc = "cleared"
       /\ Step(c, [t EXCEPT !.pc = "await_drain", !.in_transaction = FALSE,
                            !.tx_graph = None],
               loop.graph \cup Get(t.tx_graph))

\* The response is drained and the batch is done: back to the read.
LoopDrained(c) ==
    LET t == loop.conns[c]
    IN /\ MayRun(c)
       /\ t.pc = "await_drain"
       /\ Step(c, [t EXCEPT !.pc = "await_read"], loop.graph)

NextLoop ==
    \E c \in Conns :
        \/ LoopRun(c)
        \/ LoopBegin(c)
        \/ LoopCommitClear(c)
        \/ LoopCommitUpdate(c)
        \/ LoopDrained(c)

SpecLoop == InitLoop /\ [][NextLoop]_vars

(***************************************************************************)
(* A BoltServer accepts up to MaxSockets sockets; the task of each runs    *)
(* connection.handle() and ends by return, by an exception or cancelled.   *)
(***************************************************************************)
InitServer ==
    /\ Accepted({})
    /\ tap = TapOff
    /\ codec = NoCodec
    /\ result_converter = NewResultConverter
    /\ read_loop = NoReads
    /\ chunk_writer = NoWriter
    /\ sm = NewStateMachine
    /\ ck = NoChunks
    /\ query_result = NoPull
    /\ bolt_session = NewBoltSession
    /\ loop = NoLoop
    /\ server = NewBoltServer

ServerStep(srv) ==
    /\ server' = srv
    /\ UNCHANGED <<connection, tap, offer, sm, ck, query_result, bolt_session, loop, codec, result_converter, read_loop, chunk_writer>>

\* BoltServer.start and BoltServer.stop
ServerStart ==
    /\ ~server.running
    /\ ServerStep([server EXCEPT !.running = TRUE])

ServerStop ==
    /\ server.running
    /\ ServerStep([server EXCEPT !.running = FALSE])

\* _handle_connection up to the await of handle(), which starts the handshake.
Accept(s) ==
    /\ server.running
    /\ server.tasks[s] = "none"
    /\ ServerStep([server EXCEPT !.connections = @ \cup {s},
                                 !.tasks[s] = "handshake"])

\* handle(): the handshake succeeds, or fails and handle() goes to its finally.
HandshakeEnds(s) ==
    /\ server.tasks[s] = "handshake"
    /\ \E ok \in BOOLEAN :
          ServerStep([server EXCEPT !.tasks[s] = IF ok THEN "reading" ELSE "closing"])

\* handle(): the read loop ends: no messages, DEFUNCT, a connection reset, an
\* Exception caught at line 124, or a CancelledError caught at line 112.
ReadLoopEnds(s) ==
    /\ server.tasks[s] = "reading"
    /\ ServerStep([server EXCEPT !.tasks[s] = "closing"])

\* _close is done and handle() returns.
HandlerReturns(s) ==
    /\ server.tasks[s] = "closing"
    /\ ServerStep(task_ends(server, s, "returned"))

\* An exception leaves handle().
HandlerRaises(s) ==
    /\ server.tasks[s] \in Handling
    /\ ServerStep(task_ends(server, s, "raised"))

\* The task is cancelled at an await where handle() does not catch it: in
\* the handshake or in _close.
HandlerCancelled(s) ==
    /\ server.tasks[s] \in {"handshake", "closing"}
    /\ ServerStep(task_ends(server, s, "cancelled"))

NextServer ==
    \/ ServerStart
    \/ ServerStop
    \/ \E s \in Sockets :
          \/ Accept(s)
          \/ HandshakeEnds(s)
          \/ ReadLoopEnds(s)
          \/ HandlerReturns(s)
          \/ HandlerRaises(s)
          \/ HandlerCancelled(s)

SpecServer == InitServer /\ [][NextServer]_vars

(***************************************************************************)
(* PackStream values, encoded and decoded again.  The integers sit on both *)
(* sides of every lane boundary, the strings, byte strings, lists, maps    *)
(* and structures on both sides of the size lanes of 15/16 and 255/256.    *)
(***************************************************************************)
Rep(n, x) == [i \in 1..n |-> x]

Pair(key, value) == [key |-> PsStr(key), value |-> value]

IntValues ==
    {PsInt(FALSE, <<>>), PsInt(FALSE, <<1>>), PsInt(FALSE, <<42>>),
     PsInt(FALSE, <<127>>), PsInt(FALSE, <<128>>),
     PsInt(FALSE, <<127, 255>>), PsInt(FALSE, <<128, 0>>),
     PsInt(FALSE, <<127, 255, 255, 255>>), PsInt(FALSE, <<128, 0, 0, 0>>),
     PsInt(FALSE, <<127>> \o Rep(7, 255)),
     PsInt(TRUE, <<1>>), PsInt(TRUE, <<16>>), PsInt(TRUE, <<17>>),
     PsInt(TRUE, <<128>>), PsInt(TRUE, <<129>>),
     PsInt(TRUE, <<128, 0>>), PsInt(TRUE, <<128, 1>>),
     PsInt(TRUE, <<128, 0, 0, 0>>), PsInt(TRUE, <<128, 0, 0, 1>>),
     PsInt(TRUE, <<128>> \o Rep(7, 0))}

StrValues ==
    {PsStr(<<>>), PsStr(<<97>>), PsStr(<<233>>), PsStr(<<8364>>),
     PsStr(Rep(15, 97)), PsStr(Rep(16, 97)), PsStr(Rep(14, 97) \o <<233>>),
     PsStr(Rep(255, 97)), PsStr(Rep(256, 97))}

BytesValues ==
    {PsBytes(<<>>), PsBytes(<<0>>), PsBytes(<<255, 0>>),
     PsBytes(Rep(255, 7)), PsBytes(Rep(256, 7))}

ListValues ==
    {PsList(<<>>),
     PsList(<<PsInt(FALSE, <<1>>), PsStr(<<97>>), PsNull, PsBool(TRUE)>>),
     PsList(<<PsList(<<PsInt(FALSE, <<1>>)>>), PsList(<<PsList(<<>>)>>)>>),
     PsList(Rep(15, PsInt(TRUE, <<17>>))), PsList(Rep(16, PsInt(TRUE, <<17>>)))}

MapValues ==
    {PsMap(<<>>),
     PsMap(<<Pair(<<97>>, PsInt(FALSE, <<1>>))>>),
     PsMap(<<Pair(<<98>>, PsList(<<PsBool(FALSE)>>)), Pair(<<97>>, PsNull)>>),
     PsMap(<<Pair(<<111>>, PsMap(<<Pair(<<105>>, PsInt(FALSE, <<42>>))>>))>>),
     PsMap([i \in 1..15 |-> Pair(<<96 + i>>, PsInt(FALSE, <<i>>))]),
     PsMap([i \in 1..16 |-> Pair(<<96 + i>>, PsInt(FALSE, <<i>>))])}

StructValues ==
    {Structure(112, <<>>),
     Structure(113, <<PsStr(<<97>>), PsInt(FALSE, <<42>>), PsNull>>),
     Structure(113, <<Structure(78, <<PsInt(FALSE, <<1>>), PsList(<<PsStr(<<80>>)>>),
                                     PsMap(<<Pair(<<110>>, PsStr(<<65>>))>>)>>)>>),
     Structure(1, Rep(15, PsNull)), Structure(1, Rep(16, PsNull))}

Values ==
    {PsNull, PsBool(FALSE), PsBool(TRUE)}
        \cup IntValues \cup StrValues \cup BytesValues \cup ListValues
        \cup MapValues \cup StructValues

InitCodec ==
    /\ Accepted({})
    /\ tap = TapOff
    /\ result_converter = NewResultConverter
    /\ read_loop = NoReads
    /\ chunk_writer = NoWriter
    /\ sm = NewStateMachine
    /\ ck = NoChunks
    /\ query_result = NoPull
    /\ bolt_session = NewBoltSession
    /\ loop = NoLoop
    /\ server = NewBoltServer
    /\ \E v \in Values : codec = [NoCodec EXCEPT !.value = v, !.step = "value"]

EncodeValue ==
    /\ codec.step = "value"
    /\ codec' = [codec EXCEPT !.encoded = encode(codec.value), !.step = "encoded"]
    /\ UNCHANGED <<connection, tap, offer, sm, ck, query_result, bolt_session, loop, server, result_converter, read_loop, chunk_writer>>

DecodeBytes ==
    /\ codec.step = "encoded"
    /\ codec' = [codec EXCEPT !.decoded = decode(codec.encoded), !.step = "decoded"]
    /\ UNCHANGED <<connection, tap, offer, sm, ck, query_result, bolt_session, loop, server, result_converter, read_loop, chunk_writer>>

NextCodec == EncodeValue \/ DecodeBytes

SpecCodec == InitCodec /\ [][NextCodec]_vars

(***************************************************************************)
(* A ResultConverter converts node maps, relationship maps and well-formed *)
(* paths of up to MaxPath nodes, one value after the other.                *)
(***************************************************************************)
InitConverter ==
    /\ Accepted({})
    /\ tap = TapOff
    /\ read_loop = NoReads
    /\ chunk_writer = NoWriter
    /\ sm = NewStateMachine
    /\ ck = NoChunks
    /\ query_result = NoPull
    /\ bolt_session = NewBoltSession
    /\ loop = NoLoop
    /\ server = NewBoltServer
    /\ codec = NoCodec
    /\ result_converter = NewResultConverter

Converted(op, input, r) ==
    /\ result_converter' = [conv |-> r.conv, op |-> op, input |-> input,
                            output |-> r.value]
    /\ UNCHANGED <<connection, tap, offer, sm, ck, query_result, bolt_session, loop, server, codec, read_loop, chunk_writer>>

ConvertNode ==
    \E k \in Keys :
        LET r == convert_value(result_converter.conv, NodeMap(k))
        IN Converted("node", <<NodeElement(k)>>,
                     [value |-> [NoStructure EXCEPT !.id = r.value.val],
                      conv |-> r.conv])

ConvertRelationship ==
    \E s \in Keys, e \in Keys :
        LET r == convert_relationship(result_converter.conv, RelElement(s, e))
        IN Converted("relationship", <<RelElement(s, e)>>, r)

\* A well-formed path: node map, relationship map, ..., node map.
PathData(keys, rels) ==
    [i \in 1..(2 * Len(keys) - 1) |->
        IF i % 2 = 1 THEN NodeElement(keys[(i + 1) \div 2])
        ELSE RelElement(rels[i \div 2][1], rels[i \div 2][2])]

ConvertPath ==
    \E n \in 1..MaxPath :
        \E keys \in [1..n -> Keys], rels \in [1..(n - 1) -> Keys \X Keys] :
            LET r == convert_path(result_converter.conv, PathData(keys, rels))
            IN Converted("path", PathData(keys, rels), r)

NextConverter == ConvertNode \/ ConvertRelationship \/ ConvertPath

SpecConverter == InitConverter /\ [][NextConverter]_vars

(***************************************************************************)
(* One call of ChunkWriter(max_chunk_size).write(data), iteration by       *)
(* iteration, for the sizes the constructor takes: negative, 0, small and  *)
(* above MAX_CHUNK_SIZE.  A loop that does not end is followed for MaxIter *)
(* iterations.                                                             *)
(***************************************************************************)
WriterSizes == (-1..MaxChunk) \cup {MAX_CHUNK_SIZE + 1}

InitWriter ==
    /\ Accepted({})
    /\ tap = TapOff
    /\ query_result = NoPull
    /\ bolt_session = NewBoltSession
    /\ loop = NoLoop
    /\ server = NewBoltServer
    /\ codec = NoCodec
    /\ result_converter = NewResultConverter
    /\ read_loop = NoReads
    /\ sm = NewStateMachine
    /\ ck = NoChunks
    /\ \E size \in WriterSizes, data \in Messages :
          chunk_writer = NewChunkWriter(size, data)

WriteIteration ==
    /\ chunk_writer.pc = "loop"
    /\ chunk_writer.offset < Len(chunk_writer.data)
    /\ chunk_writer.iterations < MaxIter
    /\ chunk_writer' = write_iteration(chunk_writer)
    /\ UNCHANGED <<connection, tap, offer, sm, ck, query_result, bolt_session, loop, server, codec, result_converter, read_loop>>

WriteReturn ==
    /\ chunk_writer.pc = "loop"
    /\ chunk_writer.offset >= Len(chunk_writer.data)
    /\ chunk_writer' = write_return(chunk_writer)
    /\ UNCHANGED <<connection, tap, offer, sm, ck, query_result, bolt_session, loop, server, codec, result_converter, read_loop>>

NextWriter == WriteIteration \/ WriteReturn

SpecWriter == InitWriter /\ [][NextWriter]_vars

(***************************************************************************)
(* The read loop after the handshake: the framed bytes of up to MaxMsgs    *)
(* messages (the empty one is the no-op 00 00) arrive in reads that cut    *)
(* the stream anywhere.                                                    *)
(***************************************************************************)
RECURSIVE NonEmpty(_)
NonEmpty(msgs) ==
    IF Len(msgs) = 0 THEN 0
    ELSE (IF Len(Head(msgs)) > 0 THEN 1 ELSE 0) + NonEmpty(Tail(msgs))

InitReads ==
    /\ Accepted({})
    /\ tap = TapOff
    /\ query_result = NoPull
    /\ bolt_session = NewBoltSession
    /\ loop = NoLoop
    /\ server = NewBoltServer
    /\ codec = NoCodec
    /\ result_converter = NewResultConverter
    /\ chunk_writer = NoWriter
    /\ sm = NewStateMachine
    /\ ck = NoChunks
    /\ \E size \in 1..MaxChunk, n \in 1..MaxMsgs : \E msgs \in [1..n -> Messages] :
          read_loop = [NoReads EXCEPT !.stream = Framed(msgs, size),
                                      !.requests = NonEmpty(msgs)]

\* reader.read(65536) returns the next k >= 1 bytes of the stream.
Read ==
    /\ read_loop.open
    /\ \E k \in 1..Len(read_loop.stream) :
          read_loop' = [read_and_dispatch(read_loop, SubSeq(read_loop.stream, 1, k))
                           EXCEPT !.stream = SubSeq(read_loop.stream, k + 1,
                                                    Len(read_loop.stream))]
    /\ UNCHANGED <<connection, tap, offer, sm, ck, query_result, bolt_session, loop, server, codec, result_converter, chunk_writer>>

\* Lines 214-217: the peer has sent everything and closes; read returns b''.
ReadEnd ==
    /\ read_loop.open
    /\ Len(read_loop.stream) = 0
    /\ read_loop' = [read_loop EXCEPT !.open = FALSE, !.messages = 0, !.op = "eof"]
    /\ UNCHANGED <<connection, tap, offer, sm, ck, query_result, bolt_session, loop, server, codec, result_converter, chunk_writer>>

NextReads == Read \/ ReadEnd

SpecReads == InitReads /\ [][NextReads]_vars

(***************************************************************************)
(* Properties.  They read the last dispatch: req is the request, out the   *)
(* messages written for it, pre the connection as the request found it.    *)
(***************************************************************************)
Tags(msgs) == [i \in 1..Len(msgs) |-> msgs[i].tag]

Count(msgs, tag) == Cardinality({i \in 1..Len(msgs) : msgs[i].tag = tag})

RequestTags ==
    {"HELLO", "LOGON", "GOODBYE", "RESET", "RUN", "PULL", "DISCARD", "BEGIN",
     "COMMIT", "ROLLBACK", "ROUTE", "LOGOFF", "TELEMETRY", "UNKNOWN"}

Dispatched == req.tag \in RequestTags

\* The request left the state machine, the session and the converter as they were.
NoEffect ==
    /\ state = pre.state
    /\ graph = pre.graph
    /\ in_transaction = pre.in_transaction
    /\ tx_graph = pre.tx_graph
    /\ current_result = pre.current_result
    /\ last_qid = pre.last_qid
    /\ conv = pre.conv

Streaming == {"STREAMING", "TX_STREAMING"}

\* C1: in FAILED every request other than RESET and GOODBYE is answered with
\* exactly one IGNORED and nothing else, and the state stays FAILED.
C1_FailedIgnoresAll ==
    (Dispatched /\ pre.state = "FAILED" /\ req.tag \notin {"RESET", "GOODBYE"})
        => (out = <<create_ignored>> /\ state = "FAILED")

\* C2: every message-level error is surfaced as exactly one FAILURE and the
\* state is FAILED right after it: a well-formed request that is answered with
\* a FAILURE is answered with one, and leaves the state FAILED.
C2_FailureThenFailed ==
    (Dispatched /\ req.wellformed /\ Count(out, "FAILURE") > 0)
        => (Count(out, "FAILURE") = 1 /\ state = "FAILED")

\* C3: in STREAMING or TX_STREAMING a request other than PULL, DISCARD, RESET
\* and GOODBYE is not answered with SUCCESS and has no effect.
C3_StreamingWindowClosed ==
    (Dispatched /\ pre.state \in Streaming
        /\ req.tag \notin {"PULL", "DISCARD", "RESET", "GOODBYE"})
        => (Count(out, "SUCCESS") = 0 /\ NoEffect)

\* C4: for the lifetime of the connection a node key is converted to one
\* integer id, and an id given to one key is never given to another: every
\* node of a staged result carries the id its key was first given, and no
\* other key was ever given that id.
C4_IdsStable ==
    IsNone(current_result)
    \/ \A i \in 1..Len(Get(current_result).records) :
          LET v == Get(current_result).records[i][1]
          IN v.kind = "node"
                => /\ v.val = issued[v.elem]
                   /\ \A k \in Keys \ {v.elem} : issued[k] # v.val

\* C5: RESET in a non-defunct state drops the result, rolls an open
\* transaction back, leaves the live graph as it was, writes one SUCCESS and
\* leaves the state READY.
C5_Reset ==
    (req.tag = "RESET" /\ pre.state # "DEFUNCT")
        => /\ current_result = None
           /\ ~in_transaction
           /\ tx_graph = None
           /\ graph = pre.graph
           /\ out = <<create_success({})>>
           /\ state = "READY"

C5_Witness ==
    /\ req.tag = "RESET"
    /\ pre.state = "TX_STREAMING"
    /\ pre.in_transaction
    /\ pre.tx_graph # Some(pre.graph)
    /\ state = "READY"

\* The graph a request's query runs against, as the request found it.
PreWorkingGraph ==
    IF pre.in_transaction /\ ~IsNone(pre.tx_graph) THEN Get(pre.tx_graph)
    ELSE pre.graph

\* C6: RUN is executed only in READY or TX_READY.  When the engine succeeds
\* the result is staged, one SUCCESS with the field list is written and the
\* state is STREAMING (from READY) or TX_STREAMING (from TX_READY); when the
\* engine raises, one FAILURE with the SyntaxError code is written, no result
\* is staged and the state is FAILED.
C6_Run ==
    (req.tag = "RUN" /\ req.wellformed)
        => IF pre.state \notin {"READY", "TX_READY"}
           THEN NoEffect /\ Count(out, "SUCCESS") = 0
           ELSE IF req.q.op # "bad"
           THEN /\ ~IsNone(current_result)
                /\ Get(current_result).cursor = 0
                /\ Len(Get(current_result).records)
                       = Len(EngineRun(req.q, PreWorkingGraph).col)
                /\ Tags(out) = <<"SUCCESS">>
                /\ "fields" \in out[1].keys
                /\ out[1].fields = Get(current_result).fields
                /\ state = IF pre.state = "READY" THEN "STREAMING"
                           ELSE "TX_STREAMING"
           ELSE /\ out = <<create_failure(SyntaxError)>>
                /\ IsNone(current_result)
                /\ state = "FAILED"

C6_Witness ==
    /\ req.tag = "RUN"
    /\ req.wellformed
    /\ pre.state = "TX_READY"
    /\ state = "TX_STREAMING"
    /\ Len(Get(current_result).records) = 2

\* The number of records a PULL or DISCARD of n takes from a result.
Taken(qr, n) ==
    IF n < 0 THEN Len(qr.records) - qr.cursor
    ELSE Min(n, Len(qr.records) - qr.cursor)

\* C7: PULL{n} in STREAMING or TX_STREAMING writes min(n, remaining) RECORDs
\* (all that remain when n < 0), in result order, then one SUCCESS; has_more
\* is true and the state stays as it is iff records remain; otherwise
\* has_more is false, the result is cleared and the state is READY outside a
\* transaction and TX_READY inside one.
C7_Pull ==
    (req.tag = "PULL" /\ req.wellformed /\ pre.state \in Streaming
        /\ ~IsNone(pre.current_result))
        => LET qr == Get(pre.current_result)
               k == Taken(qr, req.n)
               left == Len(qr.records) - qr.cursor - k
           IN /\ Len(out) = k + 1
              /\ \A i \in 1..k :
                    out[i] = create_record(qr.records[qr.cursor + i])
              /\ out[k + 1].tag = "SUCCESS"
              /\ out[k + 1].has_more = (left > 0)
              /\ IF left > 0
                 THEN /\ state = pre.state
                      /\ current_result = Some([qr EXCEPT !.cursor = qr.cursor + k])
                 ELSE /\ IsNone(current_result)
                      /\ state = IF pre.in_transaction THEN "TX_READY" ELSE "READY"

C7_Witness ==
    /\ req.tag = "PULL"
    /\ req.n = 2
    /\ pre.state = "TX_STREAMING"
    /\ ~IsNone(pre.current_result)
    /\ Get(pre.current_result).cursor = 1
    /\ Count(out, "RECORD") = 2
    /\ state = "TX_STREAMING"

\* C8: DISCARD{n} in STREAMING or TX_STREAMING moves the cursor by
\* min(n, remaining) (to the end when n < 0), writes no RECORD and one
\* SUCCESS{has_more}, and treats the state as PULL does.
C8_Discard ==
    (req.tag = "DISCARD" /\ req.wellformed /\ pre.state \in Streaming
        /\ ~IsNone(pre.current_result))
        => LET qr == Get(pre.current_result)
               k == Taken(qr, req.n)
               left == Len(qr.records) - qr.cursor - k
           IN /\ Tags(out) = <<"SUCCESS">>
              /\ out[1].has_more = (left > 0)
              /\ IF left > 0
                 THEN /\ state = pre.state
                      /\ current_result = Some([qr EXCEPT !.cursor = qr.cursor + k])
                 ELSE /\ IsNone(current_result)
                      /\ state = IF pre.in_transaction THEN "TX_READY" ELSE "READY"

\* DISCARD{n: -1} on a result of 5 records of which 2 were taken.
C8_Witness ==
    /\ req.tag = "DISCARD"
    /\ req.n = -1
    /\ pre.state = "STREAMING"
    /\ ~IsNone(pre.current_result)
    /\ Len(Get(pre.current_result).records) = 5
    /\ Get(pre.current_result).cursor = 2
    /\ out = <<[create_success({"has_more"}) EXCEPT !.has_more = FALSE]>>
    /\ state = "READY"

\* C9: HELLO or LOGON in AUTHENTICATION is answered with one SUCCESS that
\* holds server and connection_id, and hints exactly when the negotiated
\* major version is at least 5, and the state becomes READY; in any other
\* state it is answered with IGNORED and changes nothing.
C9_Hello ==
    (req.tag \in {"HELLO", "LOGON"} /\ req.wellformed)
        => IF pre.state = "AUTHENTICATION"
           THEN /\ Tags(out) = <<"SUCCESS">>
                /\ {"server", "connection_id"} \subseteq out[1].keys
                /\ ("hints" \in out[1].keys) <=> (version[1] >= 5)
                /\ state = "READY"
           ELSE out = <<create_ignored>> /\ NoEffect

C9_Witness ==
    /\ req.tag = "LOGON"
    /\ pre.state = "AUTHENTICATION"
    /\ version[1] = 4
    /\ "hints" \notin out[1].keys
    /\ state = "READY"

\* C10: COMMIT is accepted only in TX_READY; it makes the live graph equal to
\* the transaction copy as it is then, clears in_transaction and tx_graph,
\* writes SUCCESS and goes to READY.  BEGIN is accepted only in READY and goes
\* to TX_READY with tx_graph equal to the live graph of that moment.
C10_CommitBegin ==
    /\ req.tag = "COMMIT"
          => IF pre.state = "TX_READY"
             THEN /\ graph = Get(pre.tx_graph)
                  /\ ~in_transaction
                  /\ tx_graph = None
                  /\ out = <<create_success({})>>
                  /\ state = "READY"
             ELSE Count(out, "SUCCESS") = 0 /\ NoEffect
    /\ req.tag = "BEGIN"
          => IF pre.state = "READY"
             THEN /\ tx_graph = Some(pre.graph)
                  /\ in_transaction
                  /\ graph = pre.graph
                  /\ out = <<create_success({})>>
                  /\ state = "TX_READY"
             ELSE Count(out, "SUCCESS") = 0 /\ NoEffect

\* A COMMIT of a transaction that deleted one node and created another.
C10_Witness ==
    /\ req.tag = "COMMIT"
    /\ pre.state = "TX_READY"
    /\ Get(pre.tx_graph) \ pre.graph # {}
    /\ pre.graph \ Get(pre.tx_graph) # {}
    /\ graph = Get(pre.tx_graph)
    /\ state = "READY"

\* C11: while a transaction is open no request but its COMMIT changes the
\* live graph, so that the live graph a ROLLBACK or RESET leaves behind is the
\* one BEGIN copied; and the ROLLBACK or RESET that ends the transaction of a
\* connection that is not DEFUNCT leaves the state READY.
C11_TxLeavesLiveGraph ==
    [][/\ (in_transaction /\ req'.tag # "COMMIT") => graph' = graph
       /\ (in_transaction /\ ~in_transaction' /\ state # "DEFUNCT"
              /\ req'.tag \in {"ROLLBACK", "RESET"})
              => state' = "READY"]_vars

\* A ROLLBACK of a transaction whose RUNs created one node and deleted another.
C11_Witness ==
    /\ req.tag = "ROLLBACK"
    /\ pre.state = "TX_READY"
    /\ pre.in_transaction
    /\ Get(pre.tx_graph) \ pre.graph # {}
    /\ pre.graph \ Get(pre.tx_graph) # {}
    /\ graph = pre.graph
    /\ ~in_transaction
    /\ state = "READY"

TransactionCodes ==
    {TransactionStartFailed, TransactionCommitFailed, TransactionRollbackFailed}

\* C12: a BEGIN received in a transaction (TX_READY) and a COMMIT received
\* outside one (READY) are answered with one FAILURE whose code is one of the
\* Neo.ClientError.Transaction codes.
C12_TransactionErrorCode ==
    (\/ req.tag = "BEGIN" /\ pre.state = "TX_READY" /\ pre.in_transaction
     \/ req.tag = "COMMIT" /\ pre.state = "READY" /\ ~pre.in_transaction)
        => /\ Tags(out) = <<"FAILURE">>
           /\ out[1].code \in TransactionCodes

\* C13: a message that does not decode, and a dispatch that raises outside the
\* handler's own try, are answered with one FAILURE Request.Invalid and leave
\* the state FAILED, whatever the state after the handshake was.
C13_DecodeOrDispatchFailure ==
    (req.tag = "UNDECODABLE" \/ (Dispatched /\ ~req.wellformed))
        => /\ Count(out, "FAILURE") = 1
           /\ out[Len(out)] = create_failure(RequestInvalid)
           /\ state = "FAILED"

\* C14: on the socket the messages written for one request are all written,
\* in their order, before the first message written for the next request,
\* also when both requests came with the same read.
C14_ResponsesInOrder ==
    LET w == tap.wire
    IN \A p \in 1..Len(w) :
          IF p = 1 THEN w[p].i = 1
          ELSE IF w[p - 1].n = w[p].n
          THEN w[p].i = w[p - 1].i + 1 /\ w[p].i <= w[p].of
          ELSE /\ w[p - 1].n < w[p].n
               /\ w[p - 1].i = w[p - 1].of
               /\ w[p].i = 1

\* Two requests of one read, each answered with RECORDs and a summary.
C14_Witness ==
    \E p \in 1..Len(tap.wire) :
        /\ p > 1
        /\ tap.wire[p].n = tap.wire[p - 1].n + 1
        /\ tap.wire[p].cont
        /\ tap.wire[p - 1].of >= 3
        /\ tap.wire[p].of >= 3

\* The proposals of the handshake bytes a client sent: major in the low byte
\* of each slot, then minor, then range.
Offered ==
    [i \in 1..Len(offer.slots) |->
        [major |-> offer.slots[i][4], minor |-> offer.slots[i][3],
         range |-> offer.slots[i][2]]]

Covers(p, sup) ==
    /\ sup[1] = p.major
    /\ \/ p.range = 0 /\ sup[2] = p.minor
       \/ p.range > 0 /\ p.minor - p.range <= sup[2] /\ sup[2] <= p.minor

Preference == << <<5, 4>>, <<5, 0>>, <<4, 4>>, <<4, 3>> >>

\* The version of the first proposal, in client order, that covers a version
\* of the preference list, and for it the first version it covers in that list.
FirstCovered(proposals) ==
    LET hits == {i \in 1..Len(proposals) :
                    \E j \in 1..Len(Preference) : Covers(proposals[i], Preference[j])}
    IN IF hits = {} THEN NoVersion
       ELSE LET i == CHOOSE x \in hits : \A y \in hits : x <= y
                js == {j \in 1..Len(Preference) : Covers(proposals[i], Preference[j])}
            IN Preference[CHOOSE x \in js : \A y \in js : x <= y]

HandshakeRead == offer.magic = BOLT_MAGIC /\ Len(offer.slots) = 4

C16_HandshakeOutcomes ==
    /\ (req.tag = "HANDSHAKE" /\ Len(offer.magic) = 4 /\ Len(offer.slots) = 4)
          => IF offer.magic # BOLT_MAGIC
             THEN out = <<>> /\ closed /\ state = "NEGOTIATION"
             ELSE IF FirstCovered(Offered) = NoVersion
             THEN /\ Len(out) = 1 /\ out[1].bytes = <<0, 0, 0, 0>>
                  /\ closed /\ state = "NEGOTIATION"
             ELSE /\ Len(out) = 1
                  /\ out[1].bytes = <<0, 0, FirstCovered(Offered)[2],
                                       FirstCovered(Offered)[1]>>
                  /\ ~closed
                  /\ pre.state = "NEGOTIATION" /\ state = "AUTHENTICATION"
    /\ Dispatched => (HandshakeRead /\ FirstCovered(Offered) # NoVersion)

\* A handshake with the magic preamble and four slots that cover nothing.
C16_Witness ==
    /\ req.tag = "HANDSHAKE"
    /\ HandshakeRead
    /\ \E i \in 1..4 : offer.slots[i][4] = 5
    /\ Len(out) = 1 /\ out[1].bytes = <<0, 0, 0, 0>>
    /\ closed

\* C17: transition_to(t) called in state s sets the state to t and does not
\* raise exactly when t is in VALID_TRANSITIONS[s]; otherwise it raises and
\* the state stays s.
C17_TransitionTo ==
    sm.op = "transition_to"
        => IF sm.arg \in VALID_TRANSITIONS[sm.from]
           THEN ~sm.raised /\ sm.state = sm.arg
           ELSE sm.raised /\ sm.state = sm.from

C17_Witness ==
    /\ sm.op = "transition_to"
    /\ sm.from = "STREAMING"
    /\ sm.arg = "TX_READY"
    /\ sm.raised
    /\ sm.state = "STREAMING"

\* C18: mark_defunct leaves the state DEFUNCT from every state, and once the
\* state is DEFUNCT no call of transition_to, reset or mark_defunct changes it.
C18_DefunctAbsorbing ==
    [][/\ sm'.op = "mark_defunct" => sm'.state = "DEFUNCT"
       /\ sm.state = "DEFUNCT" => sm'.state = "DEFUNCT"]_vars

C18_Witness ==
    /\ sm.op = "reset"
    /\ sm.from = "DEFUNCT"
    /\ sm.state = "DEFUNCT"

\* C19 as claimed: one message, empty or not, framed and fed in any slices,
\* comes out of the reader as that one message.
C19_RoundTripAny ==
    (Len(ck.msgs) = 1 /\ Len(ck.stream) = 0) => ck.got = ck.msgs

\* C19: one non-empty message framed with any max_chunk_size of at least 1
\* and fed in any slices comes out of the reader as that one message; the
\* empty message comes out as no message at all.
C19_RoundTrip ==
    (Len(ck.msgs) = 1 /\ Len(ck.stream) = 0)
        => ck.got = IF Len(ck.msgs[1]) = 0 THEN <<>> ELSE ck.msgs

\* A message of two zero bytes framed as two chunks of one byte.
C19_Witness ==
    /\ ck.msgs = << <<0, 0>> >>
    /\ ck.size = 1
    /\ Len(ck.stream) = 0
    /\ ck.got = ck.msgs

\* C20: of non-empty messages framed one after the other the reader has, at
\* every moment, yielded the first few in their order, and once all bytes are
\* fed it has yielded all of them.
C20_InOrder ==
    (\A i \in 1..Len(ck.msgs) : Len(ck.msgs[i]) > 0)
        => /\ Len(ck.got) <= Len(ck.msgs)
           /\ ck.got = SubSeq(ck.msgs, 1, Len(ck.got))
           /\ Len(ck.stream) = 0 => ck.got = ck.msgs

C20_Witness ==
    /\ ck.msgs = << <<0, 1>>, <<1>> >>
    /\ ck.size = 1
    /\ Len(ck.stream) = 0
    /\ ck.got = ck.msgs

\* The bytes b are chunks of at most max bytes each, every one headed by its
\* length as a big-endian u16 and none empty, that carry data, and then one
\* 00 00 and nothing more.
RECURSIVE WellFramed(_, _, _)
WellFramed(b, data, max) ==
    /\ Len(b) >= 2
    /\ LET n == b[1] * 256 + b[2]
       IN IF n = 0 THEN Len(b) = 2 /\ Len(data) = 0
          ELSE /\ n <= max
               /\ n <= Len(data)
               /\ Len(b) >= 2 + n
               /\ SubSeq(b, 3, 2 + n) = SubSeq(data, 1, n)
               /\ WellFramed(SubSeq(b, 3 + n, Len(b)),
                             SubSeq(data, n + 1, Len(data)), max)

\* C21: what write(data) returns is chunks with a big-endian u16 header equal
\* to the payload length, every payload of 1 to max_chunk_size bytes (65535 at
\* most), the payloads making up data, then exactly one 00 00 as the last two
\* bytes; for empty data it is exactly 00 00.
C21_WriteFramed ==
    \A i \in 1..Len(ck.written) :
        /\ WellFramed(ck.written[i], ck.msgs[i], Lesser(ck.size, 65535))
        /\ Len(ck.msgs[i]) = 0 => ck.written[i] = <<0, 0>>

\* Two bytes written with max_chunk_size 1: two chunks and the end marker.
C21_Witness ==
    /\ ck.size = 1
    /\ Len(ck.msgs) = 1
    /\ ck.msgs[1] = <<0, 1>>
    /\ ck.written[1] = <<0, 1, 0, 0, 1, 1, 0, 0>>


\* C22: every pull(n) returns the next min(n, remaining) records, all that
\* remain when n < 0; what the pulls returned so far is the records up to the
\* cursor, none repeated or skipped; 0 <= cursor <= len(records); has_more()
\* is true exactly when cursor < len(records), and false after pull(-1).
C22_PullSequence ==
    [][LET R == query_result.result.records
           cursor == query_result.result.cursor
           remaining == Len(R) - cursor
           n == query_result'.n
           count == IF n < 0 \/ n > remaining THEN remaining ELSE n
       IN /\ query_result'.result.records = R
          /\ query_result'.op = "pull"
                => /\ query_result'.rows = [i \in 1..count |-> R[cursor + i]]
                   /\ query_result'.result.cursor = cursor + count
          /\ query_result'.taken = [i \in 1..query_result'.result.cursor |-> R[i]]
          /\ 0 <= query_result'.result.cursor
          /\ query_result'.result.cursor <= Len(R)
          /\ query_result'.op = "has_more"
                => /\ query_result'.has_more <=> cursor < Len(R)
                   /\ (query_result.op = "pull" /\ n < 0) => ~query_result'.has_more]_vars

\* Five records: pull(2) twice, pull(-1) for the last one, then has_more().
C22_Witness ==
    /\ Len(query_result.result.records) = 5
    /\ query_result.op = "has_more"
    /\ query_result.n = -1
    /\ Len(query_result.rows) = 1
    /\ Len(query_result.taken) = 5
    /\ ~query_result.has_more


\* C23: a successful RUN is answered with the qid last_qid + 1 and leaves
\* last_qid at it, so the qids of successive successful RUNs count up from 0
\* by one; a failed or ignored RUN, and RESET, BEGIN, COMMIT, ROLLBACK and
\* every other request, leave last_qid as it was.
C23_Qids ==
    /\ last_qid = -1
    /\ [](Dispatched =>
            IF req.tag = "RUN" /\ Count(out, "SUCCESS") > 0
            THEN /\ last_qid = pre.last_qid + 1
                 /\ out = <<[out[1] EXCEPT !.qid = last_qid]>>
            ELSE last_qid = pre.last_qid)
    /\ [][last_qid' = last_qid \/ last_qid' = last_qid + 1]_vars

\* The second successful RUN of a connection, answered with qid 1.
C23_Witness ==
    /\ req.tag = "RUN"
    /\ Count(out, "SUCCESS") = 1
    /\ pre.last_qid = 0
    /\ out[1].qid = 1
    /\ last_qid = 1


\* C24: begin_transaction() called while in_transaction raises, and so does
\* commit_transaction() called while not in a transaction; both leave
\* in_transaction, tx_graph and the live graph exactly as they were.
C24_TransactionGuards ==
    [][LET failing ==
               \/ bolt_session'.op = "begin_transaction" /\ bolt_session.in_transaction
               \/ bolt_session'.op = "commit_transaction" /\ ~bolt_session.in_transaction
       IN failing => /\ bolt_session'.raised
                     /\ bolt_session'.in_transaction = bolt_session.in_transaction
                     /\ bolt_session'.tx_graph = bolt_session.tx_graph
                     /\ bolt_session'.graph = bolt_session.graph]_vars

\* begin_transaction raised in a transaction whose graph differs from the
\* live graph.
C24_Witness ==
    /\ bolt_session.op = "begin_transaction"
    /\ bolt_session.raised
    /\ bolt_session.in_transaction
    /\ bolt_session.tx_graph # Some(bolt_session.graph)


\* C25: with several connections interleaving at their awaits, no RUN, BEGIN
\* or COMMIT of a connection meets the live graph while another connection is
\* between the clear and the update of its commit, and no two connections are
\* there at once.
C25_CommitAtomic ==
    /\ \A c \in Conns : ~loop.conns[c].torn
    /\ Cardinality({c \in Conns : loop.conns[c].pc = "cleared"}) <= 1

\* Both connections have committed, the second after the first, and the live
\* graph holds what they wrote.
C25_Witness ==
    /\ \A c \in Conns : loop.conns[c].last = "COMMIT"
    /\ \A c \in Conns : loop.conns[c].pc = "await_drain"
    /\ loop.graph = Keys


\* C26: the connection set of the listener holds exactly the connections
\* whose handler is still running, whether the others ended by return, by an
\* exception or cancelled; connection_count is 0 once every one has ended.
C26_ConnectionSet ==
    /\ server.connections = {s \in Sockets : server.tasks[s] \in Handling}
    /\ (\A s \in Sockets : server.tasks[s] \notin Handling)
          => connection_count(server) = 0

\* One task returned, one raised, one was cancelled, and the set is empty.
C26_Witness ==
    /\ \E s \in Sockets : server.tasks[s] = "returned"
    /\ \E s \in Sockets : server.tasks[s] = "raised"
    /\ \E s \in Sockets : server.tasks[s] = "cancelled"
    /\ connection_count(server) = 0

\* C27: for every value built from null, booleans, 64-bit integers, strings,
\* byte strings, lists, string-keyed maps and structures, decode(encode(v))
\* equals v.
C27_RoundTrip ==
    codec.step = "decoded" => codec.decoded = codec.value

\* -17, the first integer below the tiny lane, went through INT_8.
C27_Witness ==
    /\ codec.step = "decoded"
    /\ codec.value = PsInt(TRUE, <<17>>)
    /\ codec.encoded = <<200, 239>>
    /\ codec.decoded = codec.value


\* C28: the indices of a converted well-formed path have odd length, begin
\* and end with a node index, hold at every even position (counted from 0) an
\* i with 0 <= i < |nodes| and at every odd position an r with
\* 1 <= |r| <= |rels|, r positive exactly when the key of the node that
\* follows is the __end_node__ of the relationship.
C28_PathIndices ==
    result_converter.op = "path" =>
        LET path_data == result_converter.input
            indices == result_converter.output.indices
            nodes == result_converter.output.nodes
            rels == result_converter.output.relationships
        IN /\ Len(indices) % 2 = 1
           /\ Len(indices) = Len(path_data)
           /\ \A p \in 1..Len(indices) :
                 IF p % 2 = 1
                 THEN 0 <= indices[p] /\ indices[p] < Len(nodes)
                 ELSE /\ indices[p] # 0
                      /\ -Len(rels) <= indices[p] /\ indices[p] <= Len(rels)
                      /\ indices[p] > 0 <=> path_data[p + 1].key = path_data[p].end

\* 0 -[1 to 0]-> 1 -[1 to 0]-> 0: the first relationship is walked against
\* its direction, the second along it, and node 0 is met twice.
C28_Witness ==
    /\ result_converter.op = "path"
    /\ result_converter.input
          = PathData(<<0, 1, 0>>, << <<1, 0>>, <<1, 0>> >>)
    /\ result_converter.output.indices = <<0, -1, 1, 2, 0>>

\* C29 as claimed: the start and end id of a converted relationship are the
\* ids the node-id table holds for its __start_node__ and __end_node__ keys,
\* whatever the keys, the key 0 included; looked at where the table holds an
\* id for the key, so that a Node of that key carries that id.
C29_EndpointIds ==
    result_converter.op = "relationship" =>
        LET rel == result_converter.input[1]
            table == result_converter.conv.node_id_map
        IN /\ table[rel.start] # -1 =>
                 result_converter.output.start_node_id = table[rel.start]
           /\ table[rel.end] # -1 =>
                 result_converter.output.end_node_id = table[rel.end]

\* C30: a read whose bytes complete no message (part of a chunk, or only the
\* no-op 00 00) leaves the connection open, and once all the bytes of the
\* stream have arrived every request has been dispatched exactly once,
\* however the reads cut the stream.
C30_PartialReads ==
    /\ (read_loop.op = "read" /\ read_loop.messages = 0) => read_loop.open
    /\ (read_loop.op # "" /\ Len(read_loop.stream) = 0) =>
           read_loop.dispatched = read_loop.requests


\* A RUN the engine executed, and a BEGIN that was accepted.
RunExecuted == req.tag = "RUN" /\ Len(out) > 0 /\ out[1].tag = "SUCCESS"

BeginAccepted == req.tag = "BEGIN" /\ out = <<create_success({})>>

\* The state leaves NEGOTIATION for AUTHENTICATION only, and AUTHENTICATION
\* for READY (through a request whose tag is in tags, answered SUCCESS) or
\* DEFUNCT only; a RUN is executed and a BEGIN accepted only in READY or
\* TX_READY.
ReadyOnlyThrough(tags) ==
    /\ pre.state = "NEGOTIATION" => state \in {"NEGOTIATION", "AUTHENTICATION"}
    /\ pre.state = "AUTHENTICATION"
          => /\ state \in {"AUTHENTICATION", "READY", "DEFUNCT"}
             /\ state = "READY"
                   => /\ req.tag \in tags
                      /\ Len(out) = 1 /\ out[1].tag = "SUCCESS"
    /\ RunExecuted => pre.state \in {"READY", "TX_READY"}
    /\ BeginAccepted => pre.state = "READY"

\* C31 as claimed: no RUN is executed and no BEGIN accepted before a HELLO or
\* LOGON was answered SUCCESS; READY is reached from AUTHENTICATION through a
\* successful HELLO or LOGON only.
C31_ReadyThroughHello == ReadyOnlyThrough({"HELLO", "LOGON"})

\* C31, amended: no RUN is executed and no BEGIN accepted before a HELLO, a
\* LOGON or a RESET was answered SUCCESS; READY is reached from AUTHENTICATION
\* through a successful HELLO or LOGON, or through a RESET, only.
C31_ReadyThroughHelloOrReset == ReadyOnlyThrough({"HELLO", "LOGON", "RESET"})

\* A RESET sent right after the handshake left the connection READY.
C31_Witness ==
    /\ req.tag = "RESET"
    /\ pre.state = "AUTHENTICATION"
    /\ state = "READY"
    /\ out = <<create_success({})>>

\* C32 as claimed: a request taken up after GOODBYE was processed (the state
\* it finds is DEFUNCT) is answered with nothing and leaves the session as
\* it was, also when it came in the same read as the GOODBYE.
C32_SilentAfterGoodbye ==
    (Dispatched /\ pre.state = "DEFUNCT")
        => /\ out = <<>>
           /\ graph = pre.graph
           /\ in_transaction = pre.in_transaction
           /\ tx_graph = pre.tx_graph
           /\ current_result = pre.current_result
           /\ last_qid = pre.last_qid

\* The summary messages written for the last request.
Summaries == Count(out, "SUCCESS") + Count(out, "FAILURE") + Count(out, "IGNORED")

\* C33 as claimed: a request received before any GOODBYE (GOODBYE itself
\* apart), a malformed one and one that does not decode included, is answered
\* with exactly one SUCCESS, FAILURE or IGNORED.
C33_OneSummaryEach ==
    (/\ Dispatched \/ req.tag = "UNDECODABLE"
     /\ req.tag # "GOODBYE"
     /\ pre.state # "DEFUNCT")
        => Summaries = 1

\* C34: the state machine and the session agree about transactions: in
\* TX_READY and TX_STREAMING the session is in a transaction, in READY,
\* STREAMING and AUTHENTICATION it is not, and a session in a transaction
\* outside the TX states is in FAILED or DEFUNCT.
C34_TransactionAgreement ==
    /\ state \in {"TX_READY", "TX_STREAMING"} => in_transaction
    /\ state \in {"READY", "STREAMING", "AUTHENTICATION"} => ~in_transaction
    /\ (in_transaction /\ state \notin {"TX_READY", "TX_STREAMING"})
          => state \in {"FAILED", "DEFUNCT"}

\* A RUN failed inside a transaction: FAILED, and the transaction is open.
C34_Witness ==
    /\ req.tag = "RUN"
    /\ pre.state = "TX_READY"
    /\ state = "FAILED"
    /\ in_transaction

\* C35: after any calls of begin_transaction, commit_transaction and
\* rollback_transaction, raising or not, and of the other methods the
\* handlers call, tx_graph is present exactly when in_transaction is true;
\* the graph get_working_graph() returns, which its caller writes to, is
\* tx_graph in a transaction (the live graph stays as it is) and the live
\* graph otherwise (there is no tx_graph).
C35_TxGraphIffInTransaction ==
    /\ ~IsNone(bolt_session.tx_graph) <=> bolt_session.in_transaction
    /\ [](~IsNone(bolt_session.tx_graph) <=> bolt_session.in_transaction)
    /\ [][bolt_session'.op = "get_working_graph"
            => IF bolt_session.in_transaction
               THEN /\ bolt_session'.graph = bolt_session.graph
                    /\ ~IsNone(bolt_session'.tx_graph)
               ELSE IsNone(bolt_session'.tx_graph)]_vars

\* Inside a transaction the caller of get_working_graph() has changed the
\* copy, and the live graph is another graph.
C35_Witness ==
    /\ bolt_session.op = "get_working_graph"
    /\ bolt_session.in_transaction
    /\ ~IsNone(bolt_session.tx_graph)
    /\ Get(bolt_session.tx_graph) # bolt_session.graph

\* C36: in STREAMING and TX_STREAMING there is a current result, in
\* AUTHENTICATION, READY and TX_READY there is none; a well-formed PULL that
\* finds a streaming state is never answered with the FAILURE of "No active
\* result".
C36_ResultIffStreaming ==
    /\ state \in {"STREAMING", "TX_STREAMING"} => ~IsNone(current_result)
    /\ state \in {"AUTHENTICATION", "READY", "TX_READY"} => IsNone(current_result)
    /\ (/\ req.tag = "PULL" /\ req.wellformed
        /\ pre.state \in {"STREAMING", "TX_STREAMING"})
          => out[Len(out)].tag = "SUCCESS"

\* A PULL of two records left the stream open inside a transaction.
C36_Witness ==
    /\ req.tag = "PULL"
    /\ req.n = 2
    /\ pre.state = "TX_STREAMING"
    /\ state = "TX_STREAMING"
    /\ ~IsNone(current_result)
    /\ Get(current_result).cursor = 2

\* The keys in one of two graphs and not in the other.
Apart(g, h) == (g \ h) \cup (h \ g)

\* C37: a transaction works on a copy of its own.  BEGIN copies the live
\* graph; a change of a connection's tx_graph inside its transaction is a
\* step of that connection and leaves the live graph and the other
\* connections as they were; the live graph is changed only by a commit or
\* from outside a transaction, never while every connection is inside one; a
\* commit leaves the live graph equal to the copy it commits, and a RUN
\* outside a transaction works on the live graph as the commits left it.
C37_OwnCopy ==
    [][/\ \A c \in Conns :
            LET t == loop.conns[c]
                u == loop'.conns[c]
            IN /\ (~t.in_transaction /\ u.in_transaction)
                     => u.tx_graph = Some(loop.graph)
               /\ (t.in_transaction /\ u.in_transaction /\ u.tx_graph # t.tx_graph)
                     => /\ loop'.graph = loop.graph
                        /\ \A d \in Conns \ {c} : loop'.conns[d] = loop.conns[d]
               /\ (t.pc = "cleared" /\ u.pc # "cleared")
                     => loop'.graph = Get(t.tx_graph)
       /\ loop'.graph # loop.graph
            => \/ \E c \in Conns : loop.conns[c].pc = "cleared"
                                    \/ loop'.conns[c].pc = "cleared"
               \/ /\ \E c \in Conns : ~loop.conns[c].in_transaction
                  /\ Cardinality(Apart(loop'.graph, loop.graph)) = 1]_vars

\* One connection is inside a transaction and has changed its copy, the
\* other has since committed another graph, and the three graphs differ.
C37_Witness ==
    \E c, d \in Conns :
        /\ c # d
        /\ loop.conns[c].in_transaction
        /\ loop.conns[c].last = "RUN"
        /\ loop.conns[d].last = "COMMIT"
        /\ ~loop.conns[d].in_transaction
        /\ Get(loop.conns[c].tx_graph) # loop.graph

\* The records of an optional result that are still to come.
Remaining(o) == IF IsNone(o) THEN 0 ELSE Len(Get(o).records) - Get(o).cursor

\* A well-formed PULL or DISCARD was handled on a streaming result.
Drawn ==
    /\ req.tag \in {"PULL", "DISCARD"}
    /\ req.wellformed
    /\ pre.state \in Streaming
    /\ ~IsNone(pre.current_result)

\* C38 as claimed: in STREAMING or TX_STREAMING every PULL or DISCARD with
\* n >= 1 leaves fewer records remaining than it found.
C38_AlwaysFewer ==
    (Drawn /\ req.n >= 1) => Remaining(current_result) < Remaining(pre.current_result)

\* What a PULL or DISCARD does to the stream: with n >= 1 fewer records
\* remain than before when any remained (some), with n < 0 none remain; when
\* none remain the summary says has_more false, the result is gone and the
\* state is READY or TX_READY; when some remain the state is as before; and
\* the state and the cursor are both as before only for n = 0.
DrawsDown(some) ==
    Drawn =>
        LET before == Remaining(pre.current_result)
            after == Remaining(current_result)
        IN /\ (req.n >= 1 /\ (some => before > 0)) => after < before
           /\ req.n < 0 => after = 0
           /\ after = 0
                 => /\ out[Len(out)].tag = "SUCCESS"
                    /\ ~out[Len(out)].has_more
                    /\ IsNone(current_result)
                    /\ state = IF pre.in_transaction THEN "TX_READY" ELSE "READY"
           /\ after > 0 => (state = pre.state /\ out[Len(out)].has_more)
           /\ (req.n = 0 /\ before > 0)
                 => (state = pre.state /\ current_result = pre.current_result)
           /\ (state = pre.state /\ current_result = pre.current_result)
                 => req.n = 0

\* C38, amended: every PULL or DISCARD with n >= 1 leaves fewer records
\* remaining when any remained and ends the stream at once when none did
\* (n < 0 removes all); a client that keeps sending PULL with n # 0 leaves
\* the streaming state, with SUCCESS has_more false and READY or TX_READY
\* when the PULL ends the stream; only n = 0 on records that remain leaves
\* the cursor and the state unchanged.
C38_Drains ==
    /\ DrawsDown(TRUE)
    /\ []DrawsDown(TRUE)
    /\ (state \in Streaming) ~> (state \notin Streaming \/ closed)

\* The last of several PULLs of two records ended a stream of MaxRows
\* records.
C38_Witness ==
    /\ req.tag = "PULL"
    /\ req.n = 2
    /\ pre.state = "STREAMING"
    /\ Remaining(pre.current_result) = 1
    /\ Get(pre.current_result).cursor = MaxRows - 1
    /\ state = "READY"
    /\ Count(out, "RECORD") = 1

\* The messages msgs one after the other.
RECURSIVE Flatten(_)
Flatten(msgs) == IF Len(msgs) = 0 THEN <<>> ELSE Head(msgs) \o Flatten(Tail(msgs))

\* The payload bytes among the first p bytes of the framed stream b.
RECURSIVE PayloadsIn(_, _)
PayloadsIn(b, p) ==
    IF p <= 2 \/ Len(b) < 2 THEN <<>>
    ELSE LET n == b[1] * 256 + b[2]
         IN IF n = 0 THEN PayloadsIn(SubSeq(b, 3, Len(b)), p - 2)
            ELSE SubSeq(b, 3, 2 + Lesser(n, p - 2))
                   \o (IF p - 2 > n THEN PayloadsIn(SubSeq(b, 3 + n, Len(b)), p - 2 - n)
                       ELSE <<>>)

\* The payloads of the chunks that lie whole in the first p bytes of the
\* framed stream b and come after the last end marker whose two bytes lie in
\* them; acc is what was gathered before b.
RECURSIVE SinceMarker(_, _, _)
SinceMarker(b, p, acc) ==
    IF p < 2 \/ Len(b) < 2 THEN acc
    ELSE LET n == b[1] * 256 + b[2]
         IN IF n = 0 THEN SinceMarker(SubSeq(b, 3, Len(b)), p - 2, <<>>)
            ELSE IF p - 2 < n THEN acc
            ELSE SinceMarker(SubSeq(b, 3 + n, Len(b)), p - 2 - n,
                             acc \o SubSeq(b, 3, 2 + n))

\* The bytes of the rolling buffer that belong to a chunk whose size is read.
WaitingPayload(rd) == IF rd.expected_chunk_size > 0 THEN rd.buffer ELSE <<>>

\* What feed has left of the stream fed to the reader since its last clear().
AllFed ==
    LET b == Framed(ck.msgs, ck.size)
        p == Len(b) - Len(ck.stream)
    IN /\ Flatten(ck.got) \o ck.reader.message_buffer \o WaitingPayload(ck.reader)
             = PayloadsIn(b, p)
       /\ ck.reader.message_buffer = SinceMarker(b, p, <<>>)

\* C39: at the end of every feed, the messages returned so far, then the
\* accumulator, then the payload bytes waiting in the rolling buffer are the
\* payloads of all chunks fed so far; the accumulator holds the payloads of
\* the complete chunks since the last end marker; and clear() leaves the
\* rolling buffer and the accumulator empty and no chunk size pending.
C39_ReaderAccounts ==
    /\ AllFed
    /\ []AllFed
    /\ [][(ck'.msgs # ck.msgs \/ ck'.size # ck.size \/ Len(ck'.stream) > Len(ck.stream))
            => ck'.reader = NewChunkReader]_vars

\* A message has been returned and half the payload of the one chunk of the
\* next message waits in the rolling buffer.
C39_Witness ==
    /\ ck.msgs = << <<1>>, <<0, 1>> >>
    /\ ck.size = 2
    /\ ck.got = << <<1>> >>
    /\ ck.reader.expected_chunk_size = 2
    /\ ck.reader.buffer = <<0>>
    /\ ck.reader.message_buffer = <<>>

\* C40 as claimed: for every message and every max_chunk_size the
\* constructor takes, 0 and negative ones included, an iteration of the loop
\* of write moves the offset on by at least one byte and raises nothing, so
\* that write returns.
C40_OffsetAdvances ==
    [][chunk_writer'.iterations > chunk_writer.iterations
          => /\ chunk_writer'.offset >= chunk_writer.offset + 1
             /\ chunk_writer'.pc # "raised"]_vars

=============================================================================
